---------------------------- MODULE Spec2Model ----------------------------
(***************************************************************************)
(* A model of rust-memory-check: the call-graph expander, the pointer flow *)
(* graph (PFG), the worklist fixpoint of alias_analysis, the UAF and DF    *)
(* detectors with their reachability oracle, and the result merger.        *)
(*                                                                         *)
(* The input of a run is the control-flow IR of a program (prog) and the   *)
(* entry function.  Every HashMap / HashSet iteration of the source has an *)
(* unspecified order; the model takes every order.                         *)
(***************************************************************************)
EXTENDS Integers, Sequences, FiniteSets, Bags, TLC

\* Longest access path of a cell the model lets propagate materialize.
MaxPathLen == 3
\* Most statements (assignments and drop/call terminators) of a function.
MaxStmts == 2
\* Most raw findings handed to the merger when it is run on its own.
MaxRaw == 3
\* Most arguments of a command line when parse_args is run on its own.
MaxArgs == 3
\* Most flow edges and most worklist items when the graph is driven on its own.
MaxEdges == 2
MaxQueue == 1
\* The call sites of a program the oracle is run on, and the activations of a call
MaxCallSites == 2
MaxStack == 5

VARIABLES
    prog,                \* the IR of the analysed program and the options (input)
    entry_def_ids,       \* after_analysis: the entries not yet analysed
    entry,               \* the entry ContextualCall of the current run
    cfgs,                \* AnalysisContext.cfgs: the DefIds of the function table
    cs_reachable_calls,  \* AnalysisContext.cs_reachable_calls
    call_work_list,      \* process_calls' local call_work_list
    nodes,               \* PointerFlowGraph.nodes
    deref_edges,         \* PointerFlowGraph.deref_edges
    multi_drop_objects,  \* PointerFlowGraph.multi_drop_objects
    worklist,            \* AnalysisContext.worklist
    phase,               \* position: "idle", "calls", "fixpoint", "checked", "merge",
                         \* "panicked"; "args" and "parsed" before the analysis;
                         \* "pfg" when the graph is driven on its own
    uaf_infos,           \* CheckInfo.uaf_infos of the current run (a Vec: here a bag)
    df_infos,            \* CheckInfo.df_infos of the current run (a Vec: here a bag)
    check_infos,         \* after_analysis: check_infos, entry DefId -> CheckInfo
    expansions,          \* history: the bag of ContextualCalls add_reachable expanded
    n_call_pops,         \* history: iterations of process_calls' while loop
    raw_uaf_infos,       \* merge_check_info: the UafInfos not yet visited
    raw_df_infos,        \* merge_check_info: the DfInfos not yet visited
    uaf_results,         \* merge_check_info: UafSpan -> HashSet<UafResult>
    df_results,          \* merge_check_info: DfSpan -> HashSet<DfResult>
    cli_args,            \* the command line handed to parse_args (input)
    rustc_args,          \* parse_args: the arguments left for the compiler
    options,             \* AnalysisOptions: debug_opts, entries, open_dbg
    exit_code,           \* the status main exits with, None while running
    last_call,           \* history: the add_edge call of the last step when the graph
                         \* is driven on its own, None otherwise
    oracle               \* a call of the reachability oracle run on its own: the
                         \* target, the visited set, the stack and the value returned

vars == <<prog, entry_def_ids, entry, cfgs, cs_reachable_calls, call_work_list, nodes,
          deref_edges, multi_drop_objects, worklist, phase, uaf_infos, df_infos,
          check_infos, expansions, n_call_pops, raw_uaf_infos, raw_df_infos,
          uaf_results, df_results, cli_args, rustc_args, options, exit_code,
          last_call, oracle>>

\* An Option is a sequence: <<>> is None and <<v>> is Some(v).
None == <<>>
Some(v) == <<v>>

\* Filler for the fields a record variant does not have.
NoPlace == [local |-> 0, projection |-> <<>>]
NoSpan == <<>>
NoDef == ""

----------------------------------------------------------------------------
(* Generic helpers *)

\* All enumerations of a finite set: the orders a HashMap / HashSet may be iterated in.
Perms(S) ==
    {s \in [1..Cardinality(S) -> S] : \A i, j \in 1..Cardinality(S) : s[i] = s[j] => i = j}

Range(s) == {s[i] : i \in 1..Len(s)}

RECURSIVE BagOfSeq(_)
BagOfSeq(s) ==
    IF s = <<>> THEN EmptyBag ELSE SetToBag({Head(s)}) (+) BagOfSeq(Tail(s))

----------------------------------------------------------------------------
(* core/mod.rs: identifiers *)

Place(local, projection) == [local |-> local, projection |-> projection]

GlobalLocalId(def_id, local_id) == [def_id |-> def_id, local_id |-> local_id]

GlobalProjectionId(g_local_id, projection_id) ==
    [g_local_id |-> g_local_id, projection_id |-> projection_id]

GlobalBasicBlockId(def_id, bb_id) == [def_id |-> def_id, bb_id |-> bb_id]

CallerContext(g_bb_ids) == [g_bb_ids |-> g_bb_ids]

CtxtSenCallId(def_id, caller_context) ==
    [def_id |-> def_id, caller_context |-> caller_context]

CtxtSenSpanInfo(def_id, basic_block_id, span, caller_context) ==
    [def_id |-> def_id, basic_block_id |-> basic_block_id, span |-> span,
     caller_context |-> caller_context]

\* impl From<GlobalProjectionId> for DropObjectId
DropObjectId(g_proj_id) == [id |-> g_proj_id]

\* impl Into<GlobalProjectionId> for DropObjectId
ObjectCell(obj) == obj.id

\* CallerContext::is_same
IsSame(c1, c2) ==
    /\ Len(c1.g_bb_ids) = Len(c2.g_bb_ids)
    /\ \A i \in 1..Len(c1.g_bb_ids) : c1.g_bb_ids[i] = c2.g_bb_ids[i]

----------------------------------------------------------------------------
(* core/pfg.rs *)

ContainsDeref(projection) == \E i \in 1..Len(projection) : projection[i] = "Deref"

\* ProjectionNode::is_prefix_of: self.projection is a prefix of proj
IsPrefixOf(self_projection, proj) ==
    /\ Len(self_projection) <= Len(proj)
    /\ \A i \in 1..Len(self_projection) : self_projection[i] = proj[i]

\* ProjectionNode::is_same_projection
IsSameProjection(self_projection, proj) ==
    /\ Len(self_projection) = Len(proj)
    /\ \A i \in 1..Len(self_projection) : self_projection[i] = proj[i]

\* ProjectionNode::new
ProjectionNode(id, projection, drop_spans, caller_context) ==
    [id |-> id, caller_context |-> caller_context, projection |-> projection,
     points_to |-> {}, cs_drop_spans |-> drop_spans, neighbors |-> {}]

\* A PfgNode's projection_nodes map is the sequence of its nodes: the node with
\* ProjectionId i is element i + 1 (add_projection numbers them 0, 1, 2, ...).
PfgNodeOf(ns, g_local_id) == IF g_local_id \in DOMAIN ns THEN ns[g_local_id] ELSE <<>>

\* PointerFlowGraph::has_global_local
HasGlobalLocal(ns, g_local_id) == g_local_id \in DOMAIN ns

\* PointerFlowGraph::has_global_projection
HasGlobalProjection(ns, g_proj_id) ==
    /\ g_proj_id.g_local_id \in DOMAIN ns
    /\ g_proj_id.projection_id + 1 \in 1..Len(ns[g_proj_id.g_local_id])

\* PointerFlowGraph::get_projection_node
GetProjectionNode(ns, g_proj_id) == ns[g_proj_id.g_local_id][g_proj_id.projection_id + 1]

\* A variant of TryGetProjectionId that never finds a node
NoProjectionId(pfg_node, proj, caller_context) == None

\* PfgNode::try_get_projection_id: the id of a node of this local with the same
\* projection and the same caller context, or None.  At most one node matches
\* (add_or_update_virtual_node adds one only when none does).
TryGetProjectionId(pfg_node, proj, caller_context) ==
    LET hits == {i \in 1..Len(pfg_node) :
                    /\ IsSameProjection(pfg_node[i].projection, proj)
                    /\ pfg_node[i].caller_context = caller_context}
    IN  IF hits = {} THEN None ELSE Some((CHOOSE i \in hits : TRUE) - 1)

\* PfgNode::add_projection
AddProjection(pfg_node, proj, caller_context) ==
    Append(pfg_node, ProjectionNode(Len(pfg_node), proj, <<>>, caller_context))

\* The id add_or_update_virtual_node returns.
VirtualNodeId(ns, call_id, local_id, projection) ==
    LET g_local_id == GlobalLocalId(call_id.def_id, local_id)
        pfg_node == PfgNodeOf(ns, g_local_id)
        found == TryGetProjectionId(pfg_node, projection, call_id.caller_context)
    IN  GlobalProjectionId(g_local_id, IF found = None THEN Len(pfg_node) ELSE found[1])

\* A variant of AddOrUpdateVirtualNode that overwrites the destructor sites of the cell
OverwriteVirtualNode(ns, call_id, local_id, projection, drop_span) ==
    LET g_local_id == GlobalLocalId(call_id.def_id, local_id)
        pfg_node == PfgNodeOf(ns, g_local_id)
        found == TryGetProjectionId(pfg_node, projection, call_id.caller_context)
        with_proj == IF found = None
                     THEN AddProjection(pfg_node, projection, call_id.caller_context)
                     ELSE pfg_node
        proj_id == IF found = None THEN Len(pfg_node) ELSE found[1]
        updated == [with_proj EXCEPT ![proj_id + 1].cs_drop_spans =
                                         IF drop_span = None THEN <<>> ELSE drop_span]
    IN  [g \in DOMAIN ns \cup {g_local_id} |-> IF g = g_local_id THEN updated ELSE ns[g]]

\* PointerFlowGraph::add_or_update_virtual_node: the node map afterwards.
AddOrUpdateVirtualNode(ns, call_id, local_id, projection, drop_span) ==
    LET g_local_id == GlobalLocalId(call_id.def_id, local_id)
        pfg_node == PfgNodeOf(ns, g_local_id)
        found == TryGetProjectionId(pfg_node, projection, call_id.caller_context)
        with_proj == IF found = None
                     THEN AddProjection(pfg_node, projection, call_id.caller_context)
                     ELSE pfg_node
        proj_id == IF found = None THEN Len(pfg_node) ELSE found[1]
        updated == IF drop_span = None
                   THEN with_proj
                   ELSE [with_proj EXCEPT ![proj_id + 1].cs_drop_spans =
                                              Append(@, drop_span[1])]
    IN  [g \in DOMAIN ns \cup {g_local_id} |-> IF g = g_local_id THEN updated ELSE ns[g]]

\* PointerFlowGraph::add_or_update_node
AddOrUpdateNode(ns, call_id, place, drop_span) ==
    AddOrUpdateVirtualNode(ns, call_id, place.local, place.projection, drop_span)

NodeId(ns, call_id, place) == VirtualNodeId(ns, call_id, place.local, place.projection)

\* A variant of HasEdge that finds no edge
NoEdge(ns, from, to) == FALSE

\* PointerFlowGraph::has_edge
HasEdge(ns, from, to) ==
    /\ HasGlobalProjection(ns, from)
    /\ HasGlobalLocal(ns, to.g_local_id)
    /\ \E n \in GetProjectionNode(ns, from).neighbors : n.neighbor_id = to

\* ProjectionNode::add_neighbor (HashMap::insert replaces the entry of the key)
AddNeighbor(neighbors, neighbor_id, span_info) ==
    {n \in neighbors : n.neighbor_id # neighbor_id}
        \cup {[neighbor_id |-> neighbor_id, span_info |-> span_info]}

DerefEdgeInfo(from, to, is_deref) == [from |-> from, to |-> to, is_deref |-> is_deref]

\* PointerFlowGraph::add_edge: the node map afterwards
PfgAddEdgeNodes(ns, from, to, span_info) ==
    [ns EXCEPT ![from.g_local_id][from.projection_id + 1].neighbors =
                   AddNeighbor(@, to, span_info)]

\* A variant of PfgAddEdgeDerefs that records the edge the other way round
PfgAddEdgeDerefsReversed(ns, de, from, to) ==
    LET from_is_deref == ContainsDeref(GetProjectionNode(ns, from).projection)
        to_is_deref == ContainsDeref(GetProjectionNode(ns, to).projection)
    IN  IF from_is_deref \/ to_is_deref
        THEN de \cup {DerefEdgeInfo(to, from, <<to_is_deref, from_is_deref>>)}
        ELSE de

\* A variant of PfgAddEdgeDerefs that records the edge only when both paths hold a Deref
PfgAddEdgeDerefsOfBoth(ns, de, from, to) ==
    LET from_is_deref == ContainsDeref(GetProjectionNode(ns, from).projection)
        to_is_deref == ContainsDeref(GetProjectionNode(ns, to).projection)
    IN  IF from_is_deref /\ to_is_deref
        THEN de \cup {DerefEdgeInfo(from, to, <<from_is_deref, to_is_deref>>)}
        ELSE de

\* PointerFlowGraph::add_edge: the deref-edge set afterwards
PfgAddEdgeDerefs(ns, de, from, to) ==
    LET from_is_deref == ContainsDeref(GetProjectionNode(ns, from).projection)
        to_is_deref == ContainsDeref(GetProjectionNode(ns, to).projection)
    IN  IF from_is_deref \/ to_is_deref
        THEN de \cup {DerefEdgeInfo(from, to, <<from_is_deref, to_is_deref>>)}
        ELSE de


----------------------------------------------------------------------------
(* The IR of a function (core/cfg.rs ControlFlowGraph, core/mod.rs) *)

Addressed(place) == [kind |-> "Addressed", place |-> place]
Constant == [kind |-> "Constant", place |-> NoPlace]

\* AssignmentInfo::new
AssignmentInfo(lvalue, rvalue, span, op) ==
    [lvalue |-> lvalue, rvalue |-> rvalue, stat_span |-> span, op |-> op]

\* mir::Operand
Operand(kind, place) == [kind |-> kind, place |-> place]

\* Terminators: Drop { place }, Call { func: FnDef(callee), args, destination },
\* and the others, which the analysis does not look into.
TermDrop(place, span) ==
    [kind |-> "Drop", place |-> place, callee_def_id |-> NoDef, args |-> <<>>,
     destination |-> NoPlace, span |-> span]
TermCall(callee, args, destination, span) ==
    [kind |-> "Call", place |-> NoPlace, callee_def_id |-> callee, args |-> args,
     destination |-> destination, span |-> span]
TermOther == [kind |-> "Other", place |-> NoPlace, callee_def_id |-> NoDef, args |-> <<>>,
              destination |-> NoPlace, span |-> NoSpan]

\* BasicBlockInfo::new
BasicBlockInfo(successors, assignment_infos, terminator) ==
    [successors |-> successors, assignment_infos |-> assignment_infos,
     terminator |-> terminator]

\* ControlFlowGraph.basic_block_infos of a function: BasicBlockId -> BasicBlockInfo
BlocksOf(p, def_id) == p.fn[def_id].basic_block_infos

\* ControlFlowGraph::new, call_infos: the blocks that end in a Call of a FnDef
CallInfos(p, def_id) ==
    {bb \in DOMAIN BlocksOf(p, def_id) : BlocksOf(p, def_id)[bb].terminator.kind = "Call"}

CallInfo(p, def_id, bb) == BlocksOf(p, def_id)[bb].terminator

----------------------------------------------------------------------------
(* core/analysis.rs: expansion *)

\* PointsTo::new
PointsTo(g_proj_id, points_to) == [g_proj_id |-> g_proj_id, points_to |-> points_to]

\* The part of the AnalysisContext that expansion and propagation thread through.
Graph(ns, de, wl) == [nodes |-> ns, deref_edges |-> de, worklist |-> wl]

\* A variant of AddEdge that schedules nothing
AddEdgeUnscheduled(g, from, to, span_info) ==
    IF HasEdge(g.nodes, from, to)
    THEN g
    ELSE Graph(PfgAddEdgeNodes(g.nodes, from, to, span_info),
               PfgAddEdgeDerefs(g.nodes, g.deref_edges, from, to), g.worklist)

\* analysis::add_edge
AddEdge(g, from, to, span_info) ==
    IF HasEdge(g.nodes, from, to)
    THEN g
    ELSE LET ns1 == PfgAddEdgeNodes(g.nodes, from, to, span_info)
             de1 == PfgAddEdgeDerefs(ns1, g.deref_edges, from, to)
             from_pts == GetProjectionNode(ns1, from).points_to
         IN  Graph(ns1, de1,
                   IF from_pts # {}
                   THEN Append(g.worklist, PointsTo(to, from_pts))
                   ELSE g.worklist)

\* analysis::is_ptr_copy; the place's static type (utils::get_ty_from_place) is IR input
IsPtrCopy(p, def_id, place) ==
    \/ place \in p.fn[def_id].ptr_places
    \/ ContainsDeref(place.projection)

\* A variant of NeedAddEdge that takes every copy of a place
NeedAddEdgeOfAnyCopy(p, def_id, assignment) == assignment.rvalue.kind = "Addressed"

\* add_reachable, lines 119-130: whether an assignment gets a flow edge
NeedAddEdge(p, def_id, assignment) ==
    /\ assignment.rvalue.kind = "Addressed"
    /\ \/ assignment.op \in {"Move", "Ref", "AddressOf"}
       \/ assignment.op = "Copy" /\ IsPtrCopy(p, def_id, assignment.rvalue.place)

\* A variant of IsDropTerminator that takes a Call for a destructor too
IsDropOrCallTerminator(terminator) == terminator.kind \in {"Drop", "Call"}

\* add_reachable, line 94: the terminator is a Drop
IsDropTerminator(terminator) == terminator.kind = "Drop"

\* A variant of HandleDrop that records the destructor site without a seed
HandleDropWithoutSeed(g, call_id, bb_id, bb_info) ==
    IF IsDropTerminator(bb_info.terminator)
    THEN LET place == bb_info.terminator.place
             cs_drop_span == CtxtSenSpanInfo(call_id.def_id, bb_id,
                                             bb_info.terminator.span,
                                             call_id.caller_context)
         IN  Graph(AddOrUpdateNode(g.nodes, call_id, place, Some(cs_drop_span)),
                   g.deref_edges, g.worklist)
    ELSE g

\* A variant of HandleDrop that seeds the worklist at every destructor terminator
HandleDropSeedingEach(g, call_id, bb_id, bb_info) ==
    IF IsDropTerminator(bb_info.terminator)
    THEN LET place == bb_info.terminator.place
             cs_drop_span == CtxtSenSpanInfo(call_id.def_id, bb_id,
                                             bb_info.terminator.span,
                                             call_id.caller_context)
             g_proj_id == NodeId(g.nodes, call_id, place)
             ns1 == AddOrUpdateNode(g.nodes, call_id, place, Some(cs_drop_span))
         IN  Graph(ns1, g.deref_edges,
                   Append(g.worklist, PointsTo(g_proj_id, {DropObjectId(g_proj_id)})))
    ELSE g

\* add_reachable, lines 93-115: the destructor terminator of a block
HandleDrop(g, call_id, bb_id, bb_info) ==
    IF IsDropTerminator(bb_info.terminator)
    THEN LET place == bb_info.terminator.place
             cs_drop_span == CtxtSenSpanInfo(call_id.def_id, bb_id,
                                             bb_info.terminator.span,
                                             call_id.caller_context)
             g_proj_id == NodeId(g.nodes, call_id, place)
             ns1 == AddOrUpdateNode(g.nodes, call_id, place, Some(cs_drop_span))
         IN  Graph(ns1, g.deref_edges,
                   IF Len(GetProjectionNode(ns1, g_proj_id).cs_drop_spans) = 1
                   THEN Append(g.worklist,
                               PointsTo(g_proj_id, {DropObjectId(g_proj_id)}))
                   ELSE g.worklist)
    ELSE g

\* add_reachable, lines 117-151: one assignment of a block
HandleAssignment(p, g, call_id, bb_id, assignment) ==
    IF NeedAddEdge(p, call_id.def_id, assignment)
    THEN LET ns1 == AddOrUpdateNode(g.nodes, call_id, assignment.lvalue, None)
             left_g_proj_id == NodeId(ns1, call_id, assignment.lvalue)
             ns2 == AddOrUpdateNode(ns1, call_id, assignment.rvalue.place, None)
             right_g_proj_id == NodeId(ns2, call_id, assignment.rvalue.place)
         IN  AddEdge(Graph(ns2, g.deref_edges, g.worklist),
                     right_g_proj_id, left_g_proj_id,
                     CtxtSenSpanInfo(call_id.def_id, bb_id, assignment.stat_span,
                                     CallerContext(<<>>)))
    ELSE g

RECURSIVE HandleAssignments(_, _, _, _, _)
HandleAssignments(p, g, call_id, bb_id, assignment_infos) ==
    IF assignment_infos = <<>>
    THEN g
    ELSE HandleAssignments(p,
                           HandleAssignment(p, g, call_id, bb_id, Head(assignment_infos)),
                           call_id, bb_id, Tail(assignment_infos))

\* add_reachable, lines 92-152: the body of the loop over the basic blocks
AddReachableBlock(p, g, call_id, bb_id) ==
    LET bb_info == BlocksOf(p, call_id.def_id)[bb_id]
    IN  HandleAssignments(p, HandleDrop(g, call_id, bb_id, bb_info),
                          call_id, bb_id, bb_info.assignment_infos)

\* add_reachable, lines 92-152: the loop over basic_block_infos, visited in the
\* order bb_order
RECURSIVE AddReachableBlocks(_, _, _, _)
AddReachableBlocks(p, g, call_id, bb_order) ==
    IF bb_order = <<>>
    THEN g
    ELSE AddReachableBlocks(p, AddReachableBlock(p, g, call_id, Head(bb_order)),
                            call_id, Tail(bb_order))

\* The part of the AnalysisContext that process_calls threads through
CallsContext(g, cwl, calls, table) ==
    [g |-> g, call_work_list |-> cwl, cs_reachable_calls |-> calls, cfgs |-> table]

\* add_reachable
AddReachable(p, ctx, call_id, bb_order) ==
    IF call_id \in ctx.cs_reachable_calls
    THEN ctx
    ELSE CallsContext(AddReachableBlocks(p, ctx.g, call_id, bb_order),
                      ctx.call_work_list,
                      ctx.cs_reachable_calls \cup {call_id},
                      ctx.cfgs)


----------------------------------------------------------------------------
(* core/analysis.rs: process_calls *)

\* str::ends_with, str::starts_with
EndsWith(str, suffix) ==
    /\ Len(str) >= Len(suffix)
    /\ SubSeq(str, Len(str) - Len(suffix) + 1, Len(str)) = suffix
StartsWith(str, prefix) ==
    /\ Len(str) >= Len(prefix)
    /\ SubSeq(str, 1, Len(prefix)) = prefix

\* lazy_static ARG_TO_RET_DEF_NAMES
ARG_TO_RET_DEF_NAMES ==
    {"from_raw", "into_raw", "as_ref", "as_mut", "borrow", "borrow_mut", "deref",
     "deref_mut", "as_ptr", "as_mut_ptr", "from_raw_parts", "as_mut_slice", "as_slice",
     "get", "get_mut", "as_bytes", "as_mut_str", "as_mut_vec", "as_str", "as_bytes_mut"}

\* lazy_static IGNORE_DEF_NAMES
IGNORE_DEF_NAMES == {"clone"}

\* str::split: the pieces of str between the occurrences of sep
RECURSIVE SplitFrom(_, _, _, _)
SplitFrom(str, sep, start, i) ==
    IF i + Len(sep) - 1 > Len(str)
    THEN <<SubSeq(str, start, Len(str))>>
    ELSE IF SubSeq(str, i, i + Len(sep) - 1) = sep
         THEN <<SubSeq(str, start, i - 1)>>
              \o SplitFrom(str, sep, i + Len(sep), i + Len(sep))
         ELSE SplitFrom(str, sep, start, i + 1)

Split(str, sep) == SplitFrom(str, sep, 1, 1)

\* [String]::join
RECURSIVE Join(_, _)
Join(parts, sep) ==
    IF parts = <<>> THEN ""
    ELSE IF Len(parts) = 1 THEN parts[1]
    ELSE parts[1] \o sep \o Join(Tail(parts), sep)

\* utils::parse_def_id: a DefId is modelled by its Debug text,
\* "DefId(0:4 ~ test02[fd64]::utils::foo)"
ParseDefId(def_id) ==
    LET path == Split(Split(def_id, " ~ ")[2], "::")
    IN  [i \in 1..Len(path) |-> Split(Split(path[i], "[")[1], ")")[1]]

\* utils::parse_entry
ParseEntry(entry_name) == Split(entry_name, "::")

\* utils::parse_def_id(def_id).join("::")
DefName(def_id) == Join(ParseDefId(def_id), "::")

\* cfg::try_create_cfg(.., false) for a callee outside the function table: whether
\* the front end can hand out its IR (input)
TryCreateCfg(p, def_id) == def_id \in p.mir

\* A variant of SkippedByName without the pass-through names
SkippedByOtherNames(def_name) ==
    \/ \E n \in IGNORE_DEF_NAMES : EndsWith(def_name, n)
    \/ StartsWith(def_name, "std::")
    \/ StartsWith(def_name, "core::")
    \/ StartsWith(def_name, "alloc::")

\* process_calls, lines 201-221: the callees that are never materialized, by name
SkippedByName(def_name) ==
    \/ \E n \in ARG_TO_RET_DEF_NAMES : EndsWith(def_name, n)
    \/ \E n \in IGNORE_DEF_NAMES : EndsWith(def_name, n)
    \/ StartsWith(def_name, "std::")
    \/ StartsWith(def_name, "core::")
    \/ StartsWith(def_name, "alloc::")

\* process_calls, lines 197-232: the callees of caller that can be materialized are
\* added to the function table
ExtendCfgs(p, ctx, caller) ==
    CallsContext(
        ctx.g, ctx.call_work_list, ctx.cs_reachable_calls,
        ctx.cfgs \cup
        {callee \in {CallInfo(p, caller.def_id, bb).callee_def_id :
                        bb \in CallInfos(p, caller.def_id)} :
            /\ callee \notin ctx.cfgs
            /\ LET def_name == DefName(callee) IN ~ SkippedByName(def_name)
            /\ TryCreateCfg(p, callee)})

\* add_args_and_ret_edge / add_args_to_ret_edge: whether an argument gets an edge
ArgNeedAddEdge(p, def_id, arg) ==
    \/ arg.kind = "Move"
    \/ arg.kind = "Copy" /\ IsPtrCopy(p, def_id, arg.place)

CallSpanInfo(caller, bb_id, call_info) ==
    CtxtSenSpanInfo(caller.def_id, bb_id, call_info.span, CallerContext(<<>>))

\* A variant of AddArgParamEdge that marks the edge as dereferenced on both sides
AddArgParamEdgeOfBothSides(p, g, caller, callee_id, arg, i, span_info) ==
    IF ArgNeedAddEdge(p, caller.def_id, arg)
    THEN LET ns1 == AddOrUpdateNode(g.nodes, caller, arg.place, None)
             arg_id == NodeId(ns1, caller, arg.place)
             ns2 == AddOrUpdateNode(ns1, callee_id, Place(i, <<>>), None)
             param_id == NodeId(ns2, callee_id, Place(i, <<>>))
         IN  AddEdge(Graph(ns2,
                           g.deref_edges
                               \cup {DerefEdgeInfo(arg_id, param_id, <<TRUE, TRUE>>)},
                           g.worklist),
                     arg_id, param_id, span_info)
    ELSE g

\* A variant of AddArgParamEdge that takes the argument's 0-based position for the
\* parameter's local
AddArgParamEdgeAtPosition(p, g, caller, callee_id, arg, i, span_info) ==
    IF ArgNeedAddEdge(p, caller.def_id, arg)
    THEN LET ns1 == AddOrUpdateNode(g.nodes, caller, arg.place, None)
             arg_id == NodeId(ns1, caller, arg.place)
             ns2 == AddOrUpdateNode(ns1, callee_id, Place(i - 1, <<>>), None)
             param_id == NodeId(ns2, callee_id, Place(i - 1, <<>>))
         IN  AddEdge(Graph(ns2,
                           g.deref_edges
                               \cup {DerefEdgeInfo(arg_id, param_id, <<TRUE, FALSE>>)},
                           g.worklist),
                     arg_id, param_id, span_info)
    ELSE g

\* add_args_and_ret_edge, lines 421-465: the body of the loop over the arguments;
\* i is the parameter's local (the argument's position, from 1)
AddArgParamEdge(p, g, caller, callee_id, arg, i, span_info) ==
    IF ArgNeedAddEdge(p, caller.def_id, arg)
    THEN LET ns1 == AddOrUpdateNode(g.nodes, caller, arg.place, None)
             arg_id == NodeId(ns1, caller, arg.place)
             ns2 == AddOrUpdateNode(ns1, callee_id, Place(i, <<>>), None)
             param_id == NodeId(ns2, callee_id, Place(i, <<>>))
         IN  AddEdge(Graph(ns2,
                           g.deref_edges
                               \cup {DerefEdgeInfo(arg_id, param_id, <<TRUE, FALSE>>)},
                           g.worklist),
                     arg_id, param_id, span_info)
    ELSE g

RECURSIVE AddArgParamEdges(_, _, _, _, _, _, _)
AddArgParamEdges(p, g, caller, callee_id, args, i, span_info) ==
    IF i > Len(args)
    THEN g
    ELSE AddArgParamEdges(p,
                          AddArgParamEdge(p, g, caller, callee_id, args[i], i, span_info),
                          caller, callee_id, args, i + 1, span_info)

\* add_args_and_ret_edge, lines 467-490: the edge from the callee's return place to
\* the destination
AddRetEdge(p, g, caller, callee_id, call_info, span_info) ==
    IF call_info.destination.local \notin p.fn[caller.def_id].unit_locals
    THEN LET ns1 == AddOrUpdateNode(g.nodes, callee_id, Place(0, <<>>), None)
             callee_ret_id == NodeId(ns1, callee_id, Place(0, <<>>))
             ns2 == AddOrUpdateNode(ns1, caller, call_info.destination, None)
             ret_id == NodeId(ns2, caller, call_info.destination)
         IN  AddEdge(Graph(ns2, g.deref_edges, g.worklist),
                     callee_ret_id, ret_id, span_info)
    ELSE g

\* add_args_and_ret_edge
AddArgsAndRetEdge(p, g, caller, bb_id, call_info, target_context) ==
    AddRetEdge(p,
               AddArgParamEdges(p, g, caller,
                                CtxtSenCallId(call_info.callee_def_id, target_context),
                                call_info.args, 1, CallSpanInfo(caller, bb_id, call_info)),
               caller, CtxtSenCallId(call_info.callee_def_id, target_context),
               call_info, CallSpanInfo(caller, bb_id, call_info))

\* add_args_to_ret_edge, lines 503-543: the body of the loop over the arguments
AddArgRetEdge(p, g, caller, ret_id, arg, span_info) ==
    IF ArgNeedAddEdge(p, caller.def_id, arg)
    THEN LET ns1 == AddOrUpdateNode(g.nodes, caller, arg.place, None)
             arg_id == NodeId(ns1, caller, arg.place)
         IN  AddEdge(Graph(ns1,
                           g.deref_edges
                               \cup {DerefEdgeInfo(arg_id, ret_id, <<TRUE, FALSE>>)},
                           g.worklist),
                     arg_id, ret_id, span_info)
    ELSE g

RECURSIVE AddArgRetEdges(_, _, _, _, _, _)
AddArgRetEdges(p, g, caller, ret_id, args, span_info) ==
    IF args = <<>>
    THEN g
    ELSE AddArgRetEdges(p, AddArgRetEdge(p, g, caller, ret_id, Head(args), span_info),
                        caller, ret_id, Tail(args), span_info)

\* A variant of AddArgsToRetEdge that does not look at the destination's type
AddArgsToAnyRetEdge(p, g, caller, bb_id, call_info) ==
    LET ns1 == AddOrUpdateNode(g.nodes, caller, call_info.destination, None)
        ret_id == NodeId(ns1, caller, call_info.destination)
    IN  AddArgRetEdges(p, Graph(ns1, g.deref_edges, g.worklist), caller, ret_id,
                       call_info.args, CallSpanInfo(caller, bb_id, call_info))

\* add_args_to_ret_edge
AddArgsToRetEdge(p, g, caller, bb_id, call_info) ==
    IF call_info.destination.local \notin p.fn[caller.def_id].unit_locals
    THEN LET ns1 == AddOrUpdateNode(g.nodes, caller, call_info.destination, None)
             ret_id == NodeId(ns1, caller, call_info.destination)
         IN  AddArgRetEdges(p, Graph(ns1, g.deref_edges, g.worklist), caller, ret_id,
                            call_info.args, CallSpanInfo(caller, bb_id, call_info))
    ELSE g

\* A variant of TargetContext that appends the call site to the caller's context
ChainedContext(caller, bb_id) ==
    CallerContext(caller.caller_context.g_bb_ids
                      \o <<GlobalBasicBlockId(caller.def_id, bb_id)>>)

\* process_calls, lines 239-240: the context of the callee of a call site
TargetContext(caller, bb_id) ==
    CallerContext(<<GlobalBasicBlockId(caller.def_id, bb_id)>>)

\* process_calls, lines 236-279: the body of the loop over the caller's call sites
ProcessCallInfo(p, ctx, caller, bb_id) ==
    LET call_info == CallInfo(p, caller.def_id, bb_id)
    IN  IF call_info.callee_def_id \in ctx.cfgs
        THEN CallsContext(
                 AddArgsAndRetEdge(p, ctx.g, caller, bb_id, call_info,
                                   TargetContext(caller, bb_id)),
                 Append(ctx.call_work_list,
                        CtxtSenCallId(call_info.callee_def_id,
                                      TargetContext(caller, bb_id))),
                 ctx.cs_reachable_calls, ctx.cfgs)
        ELSE IF LET def_name == DefName(call_info.callee_def_id)
                IN  \E n \in IGNORE_DEF_NAMES : EndsWith(def_name, n)
             THEN ctx
             ELSE CallsContext(AddArgsToRetEdge(p, ctx.g, caller, bb_id, call_info),
                               ctx.call_work_list, ctx.cs_reachable_calls, ctx.cfgs)

\* process_calls, lines 236-279: the loop over call_infos, visited in the order
\* call_order
RECURSIVE ProcessCallInfos(_, _, _, _)
ProcessCallInfos(p, ctx, caller, call_order) ==
    IF call_order = <<>>
    THEN ctx
    ELSE ProcessCallInfos(p, ProcessCallInfo(p, ctx, caller, Head(call_order)),
                          caller, Tail(call_order))


----------------------------------------------------------------------------
(* core/analysis.rs: propagate *)

\* A variant of UnionPointsTo that overwrites the cell's points-to set with the delta
OverwritePointsTo(ns, cur_g_proj_id, points_to) ==
    [ns EXCEPT ![cur_g_proj_id.g_local_id][cur_g_proj_id.projection_id + 1].points_to =
                   points_to]

\* propagate, lines 302-304: union the delta into the cell's points-to set
UnionPointsTo(ns, cur_g_proj_id, points_to) ==
    [ns EXCEPT ![cur_g_proj_id.g_local_id][cur_g_proj_id.projection_id + 1].points_to =
                   @ \cup points_to]

\* A variant of AddMultiDropObject that registers every dropped cell that points to
\* an object
AddDropObject(ns, mdo, cur_g_proj_id) ==
    IF /\ GetProjectionNode(ns, cur_g_proj_id).cs_drop_spans # <<>>
       /\ DropObjectId(cur_g_proj_id) \notin mdo
       /\ Cardinality(GetProjectionNode(ns, cur_g_proj_id).points_to) > 0
    THEN mdo \cup {DropObjectId(cur_g_proj_id)}
    ELSE mdo

\* propagate, lines 306-312: register a multi-drop object
AddMultiDropObject(ns, mdo, cur_g_proj_id) ==
    IF /\ GetProjectionNode(ns, cur_g_proj_id).cs_drop_spans # <<>>
       /\ DropObjectId(cur_g_proj_id) \notin mdo
       /\ Cardinality(GetProjectionNode(ns, cur_g_proj_id).points_to) > 1
    THEN mdo \cup {DropObjectId(cur_g_proj_id)}
    ELSE mdo

\* A variant of SubLevelTargets that takes the deeper cells of every call context
SubLevelTargetsOfAnyContext(ns, cur_g_proj_id) ==
    LET pfg_node == ns[cur_g_proj_id.g_local_id]
        cur_proj_node == GetProjectionNode(ns, cur_g_proj_id)
    IN  {GlobalProjectionId(cur_g_proj_id.g_local_id, i - 1) :
            i \in {j \in 1..Len(pfg_node) :
                      /\ j - 1 # cur_g_proj_id.projection_id
                      /\ IsPrefixOf(cur_proj_node.projection, pfg_node[j].projection)}}

\* A variant of SubLevelTargets without the diffusion to the sub level
NoSubLevelTargets(ns, cur_g_proj_id) == {}

\* propagate, lines 315-334 (diffuse to sub level): the cells that get the delta
SubLevelTargets(ns, cur_g_proj_id) ==
    LET pfg_node == ns[cur_g_proj_id.g_local_id]
        cur_proj_node == GetProjectionNode(ns, cur_g_proj_id)
    IN  {GlobalProjectionId(cur_g_proj_id.g_local_id, i - 1) :
            i \in {j \in 1..Len(pfg_node) :
                      /\ j - 1 # cur_g_proj_id.projection_id
                      /\ IsSame(cur_proj_node.caller_context, pfg_node[j].caller_context)
                      /\ IsPrefixOf(cur_proj_node.projection, pfg_node[j].projection)}}

\* A variant of SameLevelSources that leaves out the current cell
StrictPrefixSources(ns, cur_g_proj_id) ==
    LET pfg_node == ns[cur_g_proj_id.g_local_id]
        cur_proj_node == GetProjectionNode(ns, cur_g_proj_id)
    IN  {j - 1 : j \in {k \in 1..Len(pfg_node) :
                      /\ k - 1 # cur_g_proj_id.projection_id
                      /\ IsSame(cur_proj_node.caller_context, pfg_node[k].caller_context)
                      /\ IsPrefixOf(pfg_node[k].projection, cur_proj_node.projection)}}

\* propagate, lines 336-348 (diffuse to same level): the ProjectionIds of the cells
\* of the same local and context whose path is a prefix of the current cell's path
SameLevelSources(ns, cur_g_proj_id) ==
    LET pfg_node == ns[cur_g_proj_id.g_local_id]
        cur_proj_node == GetProjectionNode(ns, cur_g_proj_id)
    IN  {j - 1 : j \in {k \in 1..Len(pfg_node) :
                      /\ IsSame(cur_proj_node.caller_context, pfg_node[k].caller_context)
                      /\ IsPrefixOf(pfg_node[k].projection, cur_proj_node.projection)}}

NeighborIds(ns, g_proj_id) ==
    {n.neighbor_id : n \in GetProjectionNode(ns, g_proj_id).neighbors}

\* A variant of LocalWlEntry that hands the delta to the neighbor's own cell
LocalWlEntryOfNeighbor(ns, cur_g_proj_id, proj_id, neighbor, points_to) ==
    LET neighbor_proj_node == GetProjectionNode(ns, neighbor)
    IN  [call_id |-> CtxtSenCallId(neighbor.g_local_id.def_id,
                                   neighbor_proj_node.caller_context),
         g_local_id |-> neighbor.g_local_id,
         projections |-> neighbor_proj_node.projection,
         points_to |-> points_to]

\* propagate, lines 349-366: the local_wl entry for prefix cell proj_node and its
\* neighbor: the neighbor's path extended by the suffix of the current cell
LocalWlEntry(ns, cur_g_proj_id, proj_id, neighbor, points_to) ==
    LET cur_proj_node == GetProjectionNode(ns, cur_g_proj_id)
        proj_node == GetProjectionNode(ns, GlobalProjectionId(cur_g_proj_id.g_local_id,
                                                              proj_id))
        suffix_projections == SubSeq(cur_proj_node.projection,
                                     Len(proj_node.projection) + 1,
                                     Len(cur_proj_node.projection))
        neighbor_proj_node == GetProjectionNode(ns, neighbor)
    IN  [call_id |-> CtxtSenCallId(neighbor.g_local_id.def_id,
                                   neighbor_proj_node.caller_context),
         g_local_id |-> neighbor.g_local_id,
         projections |-> neighbor_proj_node.projection \o suffix_projections,
         points_to |-> points_to]

RECURSIVE LocalWlOfNeighbors(_, _, _, _, _)
LocalWlOfNeighbors(ns, cur_g_proj_id, proj_id, neighbor_order, points_to) ==
    IF neighbor_order = <<>>
    THEN <<>>
    ELSE <<LocalWlEntry(ns, cur_g_proj_id, proj_id, Head(neighbor_order), points_to)>>
         \o LocalWlOfNeighbors(ns, cur_g_proj_id, proj_id, Tail(neighbor_order), points_to)

\* propagate, lines 337-369: local_wl, with the prefix cells visited in the order
\* proj_order and the neighbors of prefix cell q in the order neighbor_orders[q]
RECURSIVE LocalWl(_, _, _, _, _)
LocalWl(ns, cur_g_proj_id, proj_order, neighbor_orders, points_to) ==
    IF proj_order = <<>>
    THEN <<>>
    ELSE LocalWlOfNeighbors(ns, cur_g_proj_id, Head(proj_order),
                            neighbor_orders[Head(proj_order)], points_to)
         \o LocalWl(ns, cur_g_proj_id, Tail(proj_order), neighbor_orders, points_to)

\* propagate, lines 371-380: materialize the virtual nodes of local_wl and enqueue
RECURSIVE DrainLocalWl(_, _)
DrainLocalWl(g, local_wl) ==
    IF local_wl = <<>>
    THEN g
    ELSE LET e == Head(local_wl)
             ns1 == AddOrUpdateVirtualNode(g.nodes, e.call_id, e.g_local_id.local_id,
                                           e.projections, None)
             virtual_node_id == VirtualNodeId(ns1, e.call_id, e.g_local_id.local_id,
                                              e.projections)
         IN  DrainLocalWl(Graph(ns1, g.deref_edges,
                                Append(g.worklist, PointsTo(virtual_node_id, e.points_to))),
                          Tail(local_wl))

RECURSIVE PushAll(_, _, _)
PushAll(wl, target_order, points_to) ==
    IF target_order = <<>>
    THEN wl
    ELSE PushAll(Append(wl, PointsTo(Head(target_order), points_to)),
                 Tail(target_order), points_to)

\* The iteration orders one call of propagate takes: of the sub-level targets, of
\* the prefix cells, and of each prefix cell's neighbors.
NeighborOrders(ns, cur_g_proj_id) ==
    LET qs == SameLevelSources(ns, cur_g_proj_id)
        nb(q) == NeighborIds(ns, GlobalProjectionId(cur_g_proj_id.g_local_id, q))
    IN  {f \in [qs -> UNION {Perms(nb(q)) : q \in qs}] : \A q \in qs : f[q] \in Perms(nb(q))}

\* propagate with a non-empty delta: the graph and worklist afterwards
Propagated(g, cur_g_proj_id, points_to, sub_order, proj_order, neighbor_orders) ==
    LET ns1 == UnionPointsTo(g.nodes, cur_g_proj_id, points_to)
        wl1 == PushAll(g.worklist, sub_order, points_to)
        local_wl == LocalWl(ns1, cur_g_proj_id, proj_order, neighbor_orders, points_to)
    IN  DrainLocalWl(Graph(ns1, g.deref_edges, wl1), local_wl)

\* The longest path a call of propagate would materialize
DeepestVirtual(ns, cur_g_proj_id) ==
    LET cur_len == Len(GetProjectionNode(ns, cur_g_proj_id).projection)
        pfg_node == ns[cur_g_proj_id.g_local_id]
        lens == {Len(GetProjectionNode(ns, n).projection) + cur_len
                     - Len(pfg_node[q + 1].projection) :
                   <<q, n>> \in {<<q2, n2>> \in SameLevelSources(ns, cur_g_proj_id)
                                     \X UNION {NeighborIds(ns,
                                                  GlobalProjectionId(cur_g_proj_id.g_local_id, q3)) :
                                               q3 \in SameLevelSources(ns, cur_g_proj_id)} :
                                   n2 \in NeighborIds(ns,
                                              GlobalProjectionId(cur_g_proj_id.g_local_id, q2))}}
    IN  IF lens = {} THEN 0 ELSE CHOOSE l \in lens : \A m \in lens : m <= l


----------------------------------------------------------------------------
(* core/utils.rs: the reachability oracle *)

\* can_inner_basic_block_arrive: depth-first search over the successors of one
\* function, with the visited set threaded through; [ok, visited]
RECURSIVE CanInnerBasicBlockArrive(_, _, _, _), InnerSuccessorsArrive(_, _, _, _)
CanInnerBasicBlockArrive(blocks, visited, from, to) ==
    IF from = to
    THEN [ok |-> TRUE, visited |-> visited]
    ELSE IF from \in visited
         THEN [ok |-> FALSE, visited |-> visited]
         ELSE InnerSuccessorsArrive(blocks, visited \cup {from},
                                    blocks[from].successors, to)

InnerSuccessorsArrive(blocks, visited, successors, to) ==
    IF successors = {}
    THEN [ok |-> FALSE, visited |-> visited]
    ELSE LET successor == CHOOSE b \in successors : TRUE
             r == CanInnerBasicBlockArrive(blocks, visited, successor, to)
         IN  IF r.ok
             THEN r
             ELSE InnerSuccessorsArrive(blocks, r.visited, successors \ {successor}, to)

\* can_call_arrive: depth-first search over the call edges whose callee is in the
\* function table; [ok, visited]
RECURSIVE CanCallArrive(_, _, _, _, _), CalleesArrive(_, _, _, _, _)
CanCallArrive(p, table, visited, from, to) ==
    IF from = to
    THEN [ok |-> TRUE, visited |-> visited]
    ELSE IF from \in visited
         THEN [ok |-> FALSE, visited |-> visited]
         ELSE CalleesArrive(p, table, visited \cup {from},
                            {CallInfo(p, from, bb).callee_def_id :
                                bb \in CallInfos(p, from)} \cap table,
                            to)

CalleesArrive(p, table, visited, callees, to) ==
    IF callees = {}
    THEN [ok |-> FALSE, visited |-> visited]
    ELSE LET next_id == CHOOSE d \in callees : TRUE
             r == CanCallArrive(p, table, visited, next_id, to)
         IN  IF r.ok
             THEN r
             ELSE CalleesArrive(p, table, r.visited, callees \ {next_id}, to)

\* can_basic_block_arrive; [ok, visited]
RECURSIVE CanBasicBlockArrive(_, _, _, _, _), CallSitesArrive(_, _, _, _, _, _)
CanBasicBlockArrive(p, table, visited, from, to) ==
    IF from = to
    THEN [ok |-> TRUE, visited |-> visited]
    ELSE IF from \in visited
    THEN [ok |-> FALSE, visited |-> visited]
    ELSE IF ~ CanCallArrive(p, table, {}, from.def_id, to.def_id).ok
    THEN [ok |-> FALSE, visited |-> visited]
    ELSE IF from.def_id = to.def_id
    THEN [ok |-> CanInnerBasicBlockArrive(BlocksOf(p, from.def_id), {},
                                          from.bb_id, to.bb_id).ok,
          visited |-> visited \cup {from}]
    ELSE CallSitesArrive(p, table, visited \cup {from}, from,
                         {bb \in CallInfos(p, from.def_id) :
                             CallInfo(p, from.def_id, bb).callee_def_id \in table},
                         to)

CallSitesArrive(p, table, visited, from, sites, to) ==
    IF sites = {}
    THEN [ok |-> FALSE, visited |-> visited]
    ELSE LET bb_id == CHOOSE b \in sites : TRUE
             callee == CallInfo(p, from.def_id, bb_id).callee_def_id
             r == IF CanInnerBasicBlockArrive(BlocksOf(p, from.def_id), {},
                                              from.bb_id, bb_id).ok
                  THEN CanBasicBlockArrive(p, table, visited,
                                           GlobalBasicBlockId(callee, 0), to)
                  ELSE [ok |-> FALSE, visited |-> visited]
         IN  IF r.ok
             THEN r
             ELSE CallSitesArrive(p, table, r.visited, from, sites \ {bb_id}, to)

\* utils::can_basic_block_arrive(&ctxt.cfgs, &mut HashSet::new(), from, to)
CanArrive(p, table, from, to) == CanBasicBlockArrive(p, table, {}, from, to).ok

----------------------------------------------------------------------------
(* core/check.rs: the detectors *)

\* A set in some order, and a loop that collects what its body pushes
RECURSIVE SeqOf(_)
SeqOf(S) == IF S = {} THEN <<>>
            ELSE LET x == CHOOSE y \in S : TRUE IN <<x>> \o SeqOf(S \ {x})

FlatMap(Body(_), s) ==
    LET acc[i \in 0..Len(s)] == IF i = 0 THEN <<>> ELSE acc[i - 1] \o Body(s[i])
    IN  acc[Len(s)]

SpanBlock(span_info) == GlobalBasicBlockId(span_info.def_id, span_info.basic_block_id)

\* UafInfo::new
UafInfo(deref_proj_id, deref_span, drop_obj_id, drop_span) ==
    [deref_proj_id |-> deref_proj_id, deref_span |-> deref_span,
     drop_obj_id |-> drop_obj_id, drop_span |-> drop_span]

\* DfInfo::new
DfInfo(first_drop_obj_id, first_drop_span, then_drop_obj_id, then_drop_span) ==
    [first_drop_obj_id |-> first_drop_obj_id, first_drop_span |-> first_drop_span,
     then_drop_obj_id |-> then_drop_obj_id, then_drop_span |-> then_drop_span]

\* A variant of UafCondition without the test that the two blocks differ
ReachOnly(p, table, drop_span_info, deref_span_info) ==
    CanArrive(p, table, SpanBlock(drop_span_info), SpanBlock(deref_span_info))

\* check_uaf, lines 429-445: whether a drop site and a deref site make a finding
UafCondition(p, table, drop_span_info, deref_span_info) ==
    /\ CanArrive(p, table, SpanBlock(drop_span_info), SpanBlock(deref_span_info))
    /\ SpanBlock(drop_span_info) # SpanBlock(deref_span_info)

\* check_uaf, the closure add_uaf_infos: what it pushes
AddUafInfos(p, table, ns, deref_proj_id, deref_span_info) ==
    FlatMap(LAMBDA drop_obj_id :
                FlatMap(LAMBDA drop_span_info :
                            IF UafCondition(p, table, drop_span_info, deref_span_info)
                            THEN <<UafInfo(deref_proj_id, deref_span_info, drop_obj_id,
                                           drop_span_info)>>
                            ELSE <<>>,
                        GetProjectionNode(ns, ObjectCell(drop_obj_id)).cs_drop_spans),
            SeqOf(GetProjectionNode(ns, deref_proj_id).points_to))

\* check_uaf, lines 450-468: the body of the loop over the deref edges
CheckUafEdge(p, table, ns, deref_edge_info) ==
    LET from == deref_edge_info.from
        to == deref_edge_info.to
        neighbor_info == CHOOSE n \in GetProjectionNode(ns, from).neighbors :
                             n.neighbor_id = to
    IN  (IF deref_edge_info.is_deref[1]
         THEN AddUafInfos(p, table, ns, from, neighbor_info.span_info) ELSE <<>>)
        \o
        (IF deref_edge_info.is_deref[2]
         THEN AddUafInfos(p, table, ns, to, neighbor_info.span_info) ELSE <<>>)

\* check_uaf
CheckUaf(p, table, ns, de) ==
    FlatMap(LAMBDA deref_edge_info : CheckUafEdge(p, table, ns, deref_edge_info), SeqOf(de))

\* A variant of CheckDfPair without the reverse pair
ForwardPairOnly(p, table, first_drop_obj_id, first_drop_span_info, then_drop_obj, then_drop_span_info) ==
    IF CanArrive(p, table, SpanBlock(first_drop_span_info), SpanBlock(then_drop_span_info))
    THEN <<DfInfo(first_drop_obj_id, first_drop_span_info, then_drop_obj,
                  then_drop_span_info)>>
    ELSE <<>>

\* check_df, lines 357-404: what one pair of drop sites pushes
CheckDfPair(p, table, first_drop_obj_id, first_drop_span_info, then_drop_obj, then_drop_span_info) ==
    (IF CanArrive(p, table, SpanBlock(first_drop_span_info), SpanBlock(then_drop_span_info))
     THEN <<DfInfo(first_drop_obj_id, first_drop_span_info, then_drop_obj,
                   then_drop_span_info)>>
     ELSE <<>>)
    \o
    (IF CanArrive(p, table, SpanBlock(then_drop_span_info), SpanBlock(first_drop_span_info))
     THEN <<DfInfo(then_drop_obj, then_drop_span_info, first_drop_obj_id,
                   first_drop_span_info)>>
     ELSE <<>>)

\* A variant of CheckDfObject that does not exclude the object itself
CheckDfObjectWithItself(p, table, ns, first_drop_obj_id) ==
    LET points_to == GetProjectionNode(ns, ObjectCell(first_drop_obj_id)).points_to
        first_drop_span_infos ==
            GetProjectionNode(ns, ObjectCell(first_drop_obj_id)).cs_drop_spans
    IN  IF Cardinality(points_to) <= 1
        THEN <<>>
        ELSE FlatMap(LAMBDA then_drop_obj :
                 FlatMap(LAMBDA first_drop_span_info :
                     FlatMap(LAMBDA then_drop_span_info :
                                 CheckDfPair(p, table, first_drop_obj_id,
                                             first_drop_span_info, then_drop_obj,
                                             then_drop_span_info),
                             GetProjectionNode(ns, ObjectCell(then_drop_obj)).cs_drop_spans),
                     first_drop_span_infos),
                 SeqOf(points_to))

\* check_df, lines 325-406: the body of the loop over multi_drop_objects
CheckDfObject(p, table, ns, first_drop_obj_id) ==
    LET points_to == GetProjectionNode(ns, ObjectCell(first_drop_obj_id)).points_to
        then_drop_objs == {obj_id \in points_to : obj_id # first_drop_obj_id}
        first_drop_span_infos ==
            GetProjectionNode(ns, ObjectCell(first_drop_obj_id)).cs_drop_spans
    IN  IF Cardinality(points_to) <= 1
        THEN <<>>
        ELSE FlatMap(LAMBDA then_drop_obj :
                 FlatMap(LAMBDA first_drop_span_info :
                     FlatMap(LAMBDA then_drop_span_info :
                                 CheckDfPair(p, table, first_drop_obj_id,
                                             first_drop_span_info, then_drop_obj,
                                             then_drop_span_info),
                             GetProjectionNode(ns, ObjectCell(then_drop_obj)).cs_drop_spans),
                     first_drop_span_infos),
                 SeqOf(then_drop_objs))

\* check_df
CheckDf(p, table, ns, mdo) ==
    FlatMap(LAMBDA first_drop_obj_id : CheckDfObject(p, table, ns, first_drop_obj_id),
            SeqOf(mdo))


\* UafResult::new, UafSpan::new
UafResult(deref_span, deref_var_name, drop_span, drop_var_name) ==
    [deref_span |-> deref_span, deref_var_name |-> deref_var_name,
     drop_span |-> drop_span, drop_var_name |-> drop_var_name]

UafSpan(deref_span, drop_span) == [deref_span |-> deref_span, drop_span |-> drop_span]

\* A variant of UafHasVarName that looks at the deref side only
DerefHasVarName(r) == r.deref_var_name # None

\* UafResult::has_var_name
UafHasVarName(r) == r.deref_var_name # None \/ r.drop_var_name # None

\* DfResult::new, DfSpan::new
DfResult(first_drop_span, first_drop_var_name, then_drop_span, then_drop_var_name) ==
    [first_drop_span |-> first_drop_span, first_drop_var_name |-> first_drop_var_name,
     then_drop_span |-> then_drop_span, then_drop_var_name |-> then_drop_var_name]

DfSpan(first_drop_span, then_drop_span) ==
    [first_drop_span |-> first_drop_span, then_drop_span |-> then_drop_span]

\* DfResult::has_var_name
DfHasVarName(r) == r.first_drop_var_name # None \/ r.then_drop_var_name # None

\* merge_check_info, the closure get_var_name
GetVarName(p, proj_id) == p.fn[proj_id.g_local_id.def_id].var_name[proj_id.g_local_id.local_id]

\* A variant of MergeUafInto that keeps the nameless result next to a named one
MergeUafIntoWithoutClear(results, span, result) ==
    IF span \notin DOMAIN results
    THEN [k \in DOMAIN results \cup {span} |-> IF k = span THEN {result} ELSE results[k]]
    ELSE IF UafHasVarName(result)
         THEN [results EXCEPT ![span] = @ \cup {result}]
         ELSE results

\* merge_check_info, lines 47-58: put one UafResult into the map of results, a
\* function from the span pairs seen so far to sets of results
MergeUafInto(results, span, result) ==
    IF span \notin DOMAIN results
    THEN [k \in DOMAIN results \cup {span} |-> IF k = span THEN {result} ELSE results[k]]
    ELSE IF UafHasVarName(result)
         THEN LET results_with_span == results[span]
                  cleared == IF /\ Cardinality(results_with_span) = 1
                                /\ \A r \in results_with_span : ~ UafHasVarName(r)
                             THEN {}
                             ELSE results_with_span
              IN  [results EXCEPT ![span] = cleared \cup {result}]
         ELSE results

\* merge_check_info, lines 75-86: the same for a DfResult
MergeDfInto(results, span, result) ==
    IF span \notin DOMAIN results
    THEN [k \in DOMAIN results \cup {span} |-> IF k = span THEN {result} ELSE results[k]]
    ELSE IF DfHasVarName(result)
         THEN LET results_with_span == results[span]
                  cleared == IF /\ Cardinality(results_with_span) = 1
                                /\ \A r \in results_with_span : ~ DfHasVarName(r)
                             THEN {}
                             ELSE results_with_span
              IN  [results EXCEPT ![span] = cleared \cup {result}]
         ELSE results

\* merge_check_info, lines 39-59: the body of the loop over the UafInfos
MergeUafInfo(p, results, uaf_info) ==
    MergeUafInto(results,
                 UafSpan(uaf_info.deref_span.span, uaf_info.drop_span.span),
                 UafResult(uaf_info.deref_span.span,
                           GetVarName(p, uaf_info.deref_proj_id),
                           uaf_info.drop_span.span,
                           GetVarName(p, ObjectCell(uaf_info.drop_obj_id))))

\* merge_check_info, lines 67-87: the body of the loop over the DfInfos
MergeDfInfo(p, results, df_info) ==
    MergeDfInto(results,
                DfSpan(df_info.first_drop_span.span, df_info.then_drop_span.span),
                DfResult(df_info.first_drop_span.span,
                         GetVarName(p, ObjectCell(df_info.first_drop_obj_id)),
                         df_info.then_drop_span.span,
                         GetVarName(p, ObjectCell(df_info.then_drop_obj_id))))

----------------------------------------------------------------------------
(* lib.rs and core/utils.rs: the entries of the analysis *)

\* A variant of EntryIsSuffixOf that compares the segments from the front
EntryIsPrefixOf(entry_path, def_id_path) ==
    /\ Len(entry_path) <= Len(def_id_path)
    /\ \A i \in 1..Len(entry_path) : entry_path[i] = def_id_path[i]

\* utils::entry_is_suffix_of
EntryIsSuffixOf(entry_path, def_id_path) ==
    /\ Len(entry_path) <= Len(def_id_path)
    /\ \A i \in 0..(Len(entry_path) - 1) :
           entry_path[Len(entry_path) - i] = def_id_path[Len(def_id_path) - i]

\* utils::has_entry
HasEntry(entries, def_id) ==
    \E k \in 1..Len(entries) : EntryIsSuffixOf(ParseEntry(entries[k]), ParseDefId(def_id))

\* utils::auto_detect_entries
AutoDetectEntries(entries) == entries = <<>>

\* A variant of InDegree that also counts the calls of a function to itself
InDegreeWithLoops(p, table, def_id) ==
    Cardinality({site \in UNION {{<<d, bb>> : bb \in CallInfos(p, d)} : d \in table} :
                    /\ CallInfo(p, site[1], site[2]).callee_def_id \in table
                    /\ CallInfo(p, site[1], site[2]).callee_def_id = def_id})

\* utils::get_top_def_ids: in_degree of a function of the table
InDegree(p, table, def_id) ==
    Cardinality({site \in UNION {{<<d, bb>> : bb \in CallInfos(p, d)} : d \in table} :
                    /\ CallInfo(p, site[1], site[2]).callee_def_id \in table
                    /\ CallInfo(p, site[1], site[2]).callee_def_id = def_id
                    /\ def_id # site[1]})

\* utils::get_top_def_ids
GetTopDefIds(p, table) == {def_id \in table : InDegree(p, table, def_id) = 0}

\* after_analysis, lines 87-95
EntryDefIds(p, table) ==
    IF AutoDetectEntries(p.entries)
    THEN GetTopDefIds(p, table)
    ELSE {def_id \in table : HasEntry(p.entries, def_id)}

----------------------------------------------------------------------------
(* core/utils.rs: the options *)

\* AnalysisOptions
AnalysisOptions(debug_opts, entries, open_dbg) ==
    [debug_opts |-> debug_opts, entries |-> entries, open_dbg |-> open_dbg]

\* utils::has_dbg
HasDbg(opts, opt_name) == \E i \in 1..Len(opts.debug_opts) : opts.debug_opts[i] = opt_name

\* A variant of ArgHasName that takes any argument starting with the name
ArgStartsWithName(arg, name) == StartsWith(arg, name)

\* parse_args, lines 85-89: the argument starts with name and goes on with '='
ArgHasName(arg, name) ==
    /\ StartsWith(arg, name)
    /\ StartsWith(SubSeq(arg, Len(name) + 1, Len(arg)), "=")

\* parse_args, lines 84-93: the index of the first argument try_get_arg_value takes
\* for name (pushed to index_removed), or None
ArgIndex(args, name) ==
    LET hits == {i \in 1..Len(args) : ArgHasName(args[i], name)}
    IN  IF hits = {} THEN None ELSE Some(CHOOSE i \in hits : \A j \in hits : i <= j)

\* parse_args, lines 88-91: suffix[1..], the text after "name="
ArgValue(arg, name) == SubSeq(arg, Len(name) + 2, Len(arg))

\* parse_args, lines 97-103: the comma-separated values of the option, if given
ArgList(args, name) ==
    LET at == ArgIndex(args, name)
    IN  IF at = None THEN <<>> ELSE Split(ArgValue(args[at[1]], name), ",")

\* parse_args, lines 105-107
ArgIsOne(args, name) ==
    LET at == ArgIndex(args, name)
    IN  IF at = None THEN FALSE ELSE ArgValue(args[at[1]], name) = "1"

\* parse_args, lines 109-114: the arguments whose index is not in index_removed
RECURSIVE RemoveIndexes(_, _, _)
RemoveIndexes(args, index_removed, i) ==
    IF i > Len(args) THEN <<>>
    ELSE (IF i \in index_removed THEN <<>> ELSE <<args[i]>>)
             \o RemoveIndexes(args, index_removed, i + 1)

\* utils::parse_args
ParseArgs(args) ==
    [options |-> AnalysisOptions(ArgList(args, "--DBG"), ArgList(args, "--entries"),
                                 ArgIsOne(args, "--open-dbg")),
     new_args |-> RemoveIndexes(args,
                                Range(ArgIndex(args, "--DBG"))
                                    \cup Range(ArgIndex(args, "--entries"))
                                    \cup Range(ArgIndex(args, "--open-dbg")),
                                1)]

----------------------------------------------------------------------------
(* The programs the analysis is run on *)

\* DefIds, as rustc prints them: the crate's own f and g, and functions of other crates
FnF == "DefId(0:3 ~ c[1f]::f)"
FnG == "DefId(0:4 ~ c[1f]::g)"
FnLibH == "DefId(2:7 ~ lib[a0]::h)"
FnExt == "DefId(2:8 ~ lib[a0]::ext)"
FnClone == "DefId(2:5 ~ lib[a0]::clone)"
FnAsRef == "DefId(2:6 ~ lib[a0]::as_ref)"
FnStdId == "DefId(1:9 ~ std[b2]::id)"
FnMain == "DefId(0:5 ~ c[1f]::main)"
FnModF == "DefId(0:6 ~ c[1f]::m::f)"

\* Locals: _0 is the return place, _1 the first parameter; _2 is of a pointer type,
\* _4 of the unit type; _1 and _2 are named in the source program.
Locals == 0..4
UnitLocals == {4}

Local(l) == Place(l, <<>>)

Function(blocks) ==
    [basic_block_infos |-> blocks,
     unit_locals |-> UnitLocals,
     ptr_places |-> {Local(2)},
     var_name |-> [l \in Locals |->
                      IF l = 1 THEN Some("x") ELSE IF l = 2 THEN Some("p") ELSE None]]

Span(def_id, bb_id, k) == <<def_id, bb_id, k>>

Assign(lvalue, rvalue, op) ==
    [kind |-> "Assign", lvalue |-> lvalue, rvalue |-> rvalue, op |-> op, place |-> NoPlace]
DropOf(place) ==
    [kind |-> "Drop", lvalue |-> NoPlace, rvalue |-> Constant, op |-> "Copy", place |-> place]

RefX == Assign(Local(2), Addressed(Local(1)), "Ref")                   \* _2 = &_1
DerefP == Assign(Local(3), Addressed(Place(2, <<"Deref">>)), "Copy")   \* _3 = (*_2)
MoveX == Assign(Local(2), Addressed(Local(1)), "Move")                 \* _2 = move _1
MoveXIntoField == Assign(Place(1, <<"F">>), Addressed(Local(1)), "Move") \* _1.F = move _1
CopyX == Assign(Local(3), Addressed(Local(1)), "Copy")                 \* _3 = _1
ConstY == Assign(Local(3), Constant, "Copy")                           \* _3 = const

StmtMenu ==
    {RefX, DerefP, MoveX, MoveXIntoField, CopyX,
     DropOf(Local(1)), DropOf(Place(1, <<"F">>)), DropOf(Local(2))}

Ascending(S) == CHOOSE s \in Perms(S) : \A i, j \in 1..Cardinality(S) : i < j => s[i] < s[j]

\* The ways to lay n statements out in basic blocks: a destructor ends its block
Placements(stmts) ==
    LET n == Len(stmts)
    IN  {pl \in [1..n -> 0..(n - 1)] :
            /\ n > 0 => pl[1] = 0
            /\ \A i \in 1..(n - 1) :
                   /\ pl[i + 1] \in {pl[i], pl[i] + 1}
                   /\ stmts[i].kind = "Drop" => pl[i + 1] = pl[i] + 1}

Successors(shape, nb, b) ==
    CASE shape = "Chain" -> IF b + 1 < nb THEN {b + 1} ELSE {}
      [] shape = "Branch" -> IF b = 0 THEN 1..(nb - 1) ELSE {}
      [] shape = "Loop" -> IF b + 1 < nb THEN {b + 1} ELSE {0}

IntraBlock(def_id, stmts, pl, shape, nb, b) ==
    LET here == {i \in 1..Len(stmts) : pl[i] = b}
        assigns == Ascending({i \in here : stmts[i].kind = "Assign"})
        drops == {i \in here : stmts[i].kind = "Drop"}
    IN  BasicBlockInfo(
            Successors(shape, nb, b),
            [k \in 1..Len(assigns) |->
                AssignmentInfo(stmts[assigns[k]].lvalue, stmts[assigns[k]].rvalue,
                               Span(def_id, b, k), stmts[assigns[k]].op)],
            IF drops = {} THEN TermOther
            ELSE TermDrop(stmts[CHOOSE i \in drops : TRUE].place, Span(def_id, b, 0)))

IntraBlocks(def_id, stmts, pl, shape) ==
    LET nb == IF Len(stmts) = 0 THEN 1 ELSE pl[Len(stmts)] + 1
    IN  [b \in 0..(nb - 1) |-> IntraBlock(def_id, stmts, pl, shape, nb, b)]

Program(fns, table, mir, entries) ==
    [fn |-> fns, table |-> table, mir |-> mir, entries |-> entries]

IntraProgram(stmts, pl, shape) ==
    Program([d \in {FnF} |-> Function(IntraBlocks(FnF, stmts, pl, shape))], {FnF}, {}, <<>>)

\* One function of at most MaxStmts statements
IntraPrograms ==
    {IntraProgram(c[1], c[2], c[3]) :
        c \in UNION {UNION {{<<stmts, pl, shape>> : shape \in {"Chain", "Branch", "Loop"}} :
                                pl \in Placements(stmts)} :
                        stmts \in UNION {[1..n -> StmtMenu] : n \in 0..MaxStmts}}}


\* The body of a callee: one of a few shapes.  self is the callee's own DefId.
CalleeBlocks(self, body) ==
    CASE body = "empty" ->
             [b \in {0} |-> BasicBlockInfo({}, <<>>, TermOther)]
      [] body = "drop_param" ->
             [b \in {0} |-> BasicBlockInfo({}, <<>>, TermDrop(Local(1), Span(self, 0, 0)))]
      [] body = "drop_field" ->
             [b \in {0} |->
                 BasicBlockInfo({}, <<>>, TermDrop(Place(1, <<"F">>), Span(self, 0, 0)))]
      [] body = "drop_ret" ->
             [b \in {0} |->
                 BasicBlockInfo({}, <<AssignmentInfo(Local(0), Addressed(Local(1)),
                                                     Span(self, 0, 1), "Move")>>,
                                TermDrop(Local(1), Span(self, 0, 0)))]
      [] body = "ret_param" ->
             [b \in {0} |->
                 BasicBlockInfo({}, <<AssignmentInfo(Local(0), Addressed(Local(1)),
                                                     Span(self, 0, 1), "Move")>>,
                                TermOther)]
      [] body = "deref_param" ->
             [b \in {0} |->
                 BasicBlockInfo({}, <<AssignmentInfo(Local(2),
                                                     Addressed(Place(1, <<"Deref">>)),
                                                     Span(self, 0, 1), "Copy")>>,
                                TermOther)]
      [] body = "self_call" ->
             [b \in {0, 1} |->
                 IF b = 0
                 THEN BasicBlockInfo({1}, <<>>,
                                     TermCall(self, <<Operand("Move", Local(1))>>, Local(2),
                                              Span(self, 0, 0)))
                 ELSE BasicBlockInfo({}, <<>>, TermOther)]
      [] body = "call_back" ->
             [b \in {0, 1} |->
                 IF b = 0
                 THEN BasicBlockInfo({1}, <<>>,
                                     TermCall(FnF, <<Operand("Move", Local(1))>>, Local(2),
                                              Span(self, 0, 0)))
                 ELSE BasicBlockInfo({}, <<>>, TermOther)]

CalleeBodies == {"empty", "drop_param", "ret_param", "deref_param", "self_call", "call_back"}

\* The caller f: an optional block that drops _1, one or two calls of callee, and a
\* last block; pre is "none", "ref" (_2 = &_1 before the call) or "drop", post is
\* "none", "deref" (_3 = (*_2)) or "drop" (drop _1)
CallerStmts(pre, twice, post) ==
    (IF pre = "none" THEN 0 ELSE 1) + (IF twice THEN 2 ELSE 1)
        + (IF post = "none" THEN 0 ELSE 1)

CallerBlocks(callee, arg, destination, pre, twice, post) ==
    LET first == IF pre = "drop" THEN 1 ELSE 0
        last == first + (IF twice THEN 2 ELSE 1)
    IN  [b \in 0..last |->
            IF b < first
            THEN BasicBlockInfo({b + 1}, <<>>, TermDrop(Local(1), Span(FnF, b, 0)))
            ELSE IF b < last
            THEN BasicBlockInfo({b + 1},
                                IF pre = "ref" /\ b = first
                                THEN <<AssignmentInfo(RefX.lvalue, RefX.rvalue,
                                                      Span(FnF, b, 1), RefX.op)>>
                                ELSE <<>>,
                                TermCall(callee, <<arg>>, destination, Span(FnF, b, 0)))
            ELSE BasicBlockInfo({},
                                IF post = "deref"
                                THEN <<AssignmentInfo(DerefP.lvalue, DerefP.rvalue,
                                                      Span(FnF, b, 1), DerefP.op)>>
                                ELSE <<>>,
                                IF post = "drop"
                                THEN TermDrop(Local(1), Span(FnF, b, 0))
                                ELSE TermOther)]

\* The functions of other crates whose IR the front end can hand out
LibraryMir == {FnLibH, FnClone, FnAsRef, FnStdId}

CallProgram(callee, body, arg, destination, pre, twice, post, entries) ==
    LET table == {FnF} \cup ({callee} \cap {FnG})
        mir == LibraryMir
    IN  Program([d \in table \cup mir |->
                    IF d = FnF
                    THEN Function(CallerBlocks(callee, arg, destination, pre, twice, post))
                    ELSE Function(CalleeBlocks(d, IF d = callee THEN body ELSE "empty"))],
                table, mir, entries)

CallArgs ==
    {Operand("Move", Local(1)), Operand("Copy", Local(2)), Operand("Copy", Local(1)),
     Operand("Constant", NoPlace)}

\* f calls a function of its crate (g), of another crate with IR (h) or without
\* (ext), or one the analysis knows by name (clone, as_ref, std::); the entries are
\* detected or, for some, given by --entries
CallPrograms ==
    {CallProgram(c[1], c[2], c[3], c[4], c[5], c[6], c[7], c[8]) :
        c \in {d \in {FnG, FnLibH, FnExt, FnClone, FnAsRef, FnStdId} \X CalleeBodies
                        \X CallArgs \X {Local(3), Local(4)}
                        \X {"none", "ref", "drop"} \X BOOLEAN \X {"none", "deref", "drop"}
                        \X {<<>>, <<"f">>, <<"c::g">>} :
                  /\ d[1] \notin {FnG, FnLibH} => d[2] = "empty"
                  /\ d[8] # <<>> => d[1] = FnG /\ d[5] = "none" /\ ~ d[6]
                  /\ CallerStmts(d[5], d[6], d[7]) <= MaxStmts}}

OneStmtPerBlock == [i \in 1..3 |-> i - 1]

\* The scenarios of three statements: a direct use after free (b0: p = &x, b1: drop x,
\* b2: y = *p), the same with the deref before the drop, two drops of aliased cells in
\* a chain and in sibling blocks, and drops of a field and of the cell the whole flows to
DirectUaf == IntraProgram(<<RefX, DropOf(Local(1)), DerefP>>, OneStmtPerBlock, "Chain")
OrderBlocked == IntraProgram(<<RefX, DerefP, DropOf(Local(1))>>, OneStmtPerBlock, "Chain")
DropBoth == IntraProgram(<<RefX, DropOf(Local(1)), DropOf(Local(2))>>, OneStmtPerBlock, "Chain")
DropBothSiblings ==
    IntraProgram(<<RefX, DropOf(Local(1)), DropOf(Local(2))>>, OneStmtPerBlock, "Branch")
DropFieldAndTarget ==
    IntraProgram(<<MoveX, DropOf(Place(1, <<"F">>)), DropOf(Local(2))>>, OneStmtPerBlock,
                 "Chain")

\* The direct use after free in a function named main, and a function that calls itself
MainUaf ==
    Program([d \in {FnMain} |->
                Function(IntraBlocks(FnMain, <<RefX, DropOf(Local(1)), DerefP>>,
                                     OneStmtPerBlock, "Chain"))],
            {FnMain}, {}, <<>>)
SelfCaller ==
    CallProgram(FnF, "empty", Operand("Move", Local(1)), Local(3), "none", FALSE, "none",
                <<>>)


\* One block with _2 = &raw _1, _3 = _2 (a copy of a pointer), _3 = _1 (a copy of a
\* value) and _3 = const
AddrX == Assign(Local(2), Addressed(Local(1)), "AddressOf")
CopyP == Assign(Local(3), Addressed(Local(2)), "Copy")
PointerCopies ==
    IntraProgram(<<AddrX, CopyP, CopyX, ConstY>>, [i \in 1..4 |-> 0], "Chain")

\* f calls g(copy _1, move _1, copy _2) into _3 (which) or into _4, of the unit type;
\* g is of f's crate, or a function without IR named ext, as_ref or clone
ThreeArgCall(callee, destination) ==
    Program([d \in {FnF} \cup ({callee} \cap {FnG}) |->
                IF d = FnF
                THEN Function([b \in {0, 1} |->
                         IF b = 0
                         THEN BasicBlockInfo({1}, <<>>,
                                  TermCall(callee,
                                           <<Operand("Copy", Local(1)),
                                             Operand("Move", Local(1)),
                                             Operand("Copy", Local(2))>>,
                                           destination, Span(FnF, 0, 0)))
                         ELSE BasicBlockInfo({}, <<>>, TermOther)])
                ELSE Function(CalleeBlocks(d, "empty"))],
            {FnF} \cup ({callee} \cap {FnG}), {}, <<>>)

ThreeArgCalls ==
    {ThreeArgCall(callee, destination) :
        callee \in {FnG, FnExt, FnAsRef, FnClone}, destination \in {Local(3), Local(4)}}

\* f drops _1 and then calls g(move _1) at two call sites; g drops _1.F
TwoContexts ==
    CallProgram(FnG, "drop_field", Operand("Move", Local(1)), Local(3), "drop", TRUE, "none",
                <<>>)

\* f calls _3 = g(move _1) and then g(move _3); g returns its parameter (_0 = move _1)
\* and drops it
DropTwice ==
    Program([d \in {FnF, FnG} |->
                IF d = FnF
                THEN Function([b \in 0..2 |->
                         IF b = 2
                         THEN BasicBlockInfo({}, <<>>, TermOther)
                         ELSE BasicBlockInfo({b + 1}, <<>>,
                                  TermCall(FnG,
                                           <<Operand("Move", IF b = 0 THEN Local(1)
                                                                      ELSE Local(3))>>,
                                           IF b = 0 THEN Local(3) ELSE Local(4),
                                           Span(FnF, b, 0)))])
                ELSE Function(CalleeBlocks(d, "drop_ret"))],
            {FnF, FnG}, {}, <<>>)

\* b0: p = &x, y = *p; b1: drop x; b2: y = *p (the statement of b0 once more)
DerefTwice ==
    IntraProgram(<<RefX, DerefP, DropOf(Local(1)), DerefP>>, <<0, 0, 1, 2>>, "Chain")

Scenarios ==
    {DirectUaf, OrderBlocked, DropBoth, DropBothSiblings, DropFieldAndTarget, MainUaf,
     SelfCaller, PointerCopies, TwoContexts, DropTwice, DerefTwice} \cup ThreeArgCalls

\* The debug topics of a run (--DBG): none, the path dump, the other dumps
DebugOptMenu == {<<>>, <<"pfg-paths">>, <<"RM", "pfg", "pfgid">>}

\* The topics a program is run with: the scenarios with each of them, the enumerated
\* programs without topics
DebugOptsOf(p) == IF p \in Scenarios THEN DebugOptMenu ELSE {<<>>}

Programs == IntraPrograms \cup CallPrograms \cup Scenarios

----------------------------------------------------------------------------
(* The run: lib.rs after_analysis *)

NoCall == CtxtSenCallId(NoDef, CallerContext(<<>>))

EmptyMap == <<>>

\* CheckInfo
CheckInfo(uaf, df) == [uaf_infos |-> uaf, df_infos |-> df]

Init ==
    /\ prog \in Programs
    /\ entry_def_ids = EntryDefIds(prog, prog.table)
    /\ entry = NoCall
    /\ cfgs = prog.table
    /\ cs_reachable_calls = {}
    /\ call_work_list = <<>>
    /\ nodes = EmptyMap
    /\ deref_edges = {}
    /\ multi_drop_objects = {}
    /\ worklist = <<>>
    /\ phase = "idle"
    /\ uaf_infos = EmptyBag
    /\ df_infos = EmptyBag
    /\ check_infos = EmptyMap
    /\ expansions = EmptyBag
    /\ n_call_pops = 0
    /\ raw_uaf_infos = EmptyBag
    /\ raw_df_infos = EmptyBag
    /\ uaf_results = EmptyMap
    /\ df_results = EmptyMap
    /\ cli_args = <<>>
    /\ rustc_args = <<>>
    /\ options \in {AnalysisOptions(d, prog.entries, FALSE) : d \in DebugOptsOf(prog)}
    /\ exit_code = None
    /\ last_call = None
    /\ oracle = None

\* after_analysis, lines 111-127, and process_calls, lines 184-185: the next entry
\* gets a fresh PFG, an empty reachable set and worklist, and the table so far
StartEntry ==
    /\ phase \in {"idle", "checked"}
    /\ \E entry_def_id \in entry_def_ids :
           /\ entry' = CtxtSenCallId(entry_def_id, CallerContext(<<>>))
           /\ entry_def_ids' = entry_def_ids \ {entry_def_id}
           /\ call_work_list' = <<CtxtSenCallId(entry_def_id, CallerContext(<<>>))>>
    /\ cs_reachable_calls' = {}
    /\ nodes' = EmptyMap
    /\ deref_edges' = {}
    /\ multi_drop_objects' = {}
    /\ worklist' = <<>>
    /\ phase' = "calls"
    /\ uaf_infos' = EmptyBag
    /\ df_infos' = EmptyBag
    /\ expansions' = EmptyBag
    /\ n_call_pops' = 0
    /\ UNCHANGED <<oracle, last_call, cli_args, rustc_args, options, exit_code,
                   prog, cfgs, check_infos, raw_uaf_infos, raw_df_infos, uaf_results,
                   df_results>>

\* A variant of IsReachableCall that never skips a popped call
NeverReachableCall(calls, caller) == FALSE

\* process_calls, line 192
IsReachableCall(calls, caller) == caller \in calls

\* process_calls, lines 189-281: one iteration of the loop over call_work_list.  The
\* blocks of the caller are visited in the order bb_order, its call sites in call_order.
ProcessCallsIteration(p, ctx, bb_order, call_order) ==
    LET caller == Head(ctx.call_work_list)
        popped == CallsContext(ctx.g, Tail(ctx.call_work_list), ctx.cs_reachable_calls,
                               ctx.cfgs)
    IN  IF IsReachableCall(ctx.cs_reachable_calls, caller)
        THEN popped
        ELSE ProcessCallInfos(
                 p, ExtendCfgs(p, AddReachable(p, popped, caller, bb_order), caller),
                 caller, call_order)

ProcessCall ==
    /\ phase = "calls"
    /\ call_work_list # <<>>
    /\ \E bb_order \in Perms(DOMAIN BlocksOf(prog, Head(call_work_list).def_id)),
          call_order \in Perms(CallInfos(prog, Head(call_work_list).def_id)) :
           \E ctx \in {ProcessCallsIteration(
                            prog,
                            CallsContext(Graph(nodes, deref_edges, worklist),
                                         call_work_list, cs_reachable_calls, cfgs),
                            bb_order, call_order)} :
               /\ cs_reachable_calls' = ctx.cs_reachable_calls
               /\ cfgs' = ctx.cfgs
               /\ nodes' = ctx.g.nodes
               /\ deref_edges' = ctx.g.deref_edges
               /\ worklist' = ctx.g.worklist
               /\ call_work_list' = ctx.call_work_list
    /\ expansions' = IF cs_reachable_calls' # cs_reachable_calls
                     THEN expansions (+) SetToBag({Head(call_work_list)})
                     ELSE expansions
    /\ n_call_pops' = n_call_pops + 1
    /\ phase' = IF call_work_list' = <<>> THEN "fixpoint" ELSE "calls"
    /\ UNCHANGED <<oracle, last_call, cli_args, rustc_args, options, exit_code,
                   prog, entry_def_ids, entry, multi_drop_objects, uaf_infos, df_infos,
                   check_infos, raw_uaf_infos, raw_df_infos, uaf_results, df_results>>

\* A variant of Delta that passes on all the objects of the entry
IncomingPointsTo(ns, pts) == pts.points_to

\* alias_analysis, lines 21-24: the delta of the worklist's first entry
Delta(ns, pts) == pts.points_to \ GetProjectionNode(ns, pts.g_proj_id).points_to

\* The part of the AnalysisContext that the fixpoint loop threads through
FixpointContext(g, mdo) == [g |-> g, multi_drop_objects |-> mdo]

\* alias_analysis, lines 20-26: one iteration of the loop over the worklist, with the
\* iteration orders that propagate takes
AliasAnalysisIteration(fx, sub_order, proj_order, neighbor_orders) ==
    LET pts == Head(fx.g.worklist)
        delta == Delta(fx.g.nodes, pts)
        popped == Graph(fx.g.nodes, fx.g.deref_edges, Tail(fx.g.worklist))
    IN  IF delta = {}
        THEN FixpointContext(popped, fx.multi_drop_objects)
        ELSE FixpointContext(
                 Propagated(popped, pts.g_proj_id, delta, sub_order, proj_order,
                            neighbor_orders),
                 AddMultiDropObject(UnionPointsTo(fx.g.nodes, pts.g_proj_id, delta),
                                    fx.multi_drop_objects, pts.g_proj_id))

\* Whether the next pop stays within the access paths the model represents
WithinPathBound(ns, wl) ==
    \/ wl = <<>>
    \/ Delta(ns, Head(wl)) = {}
    \/ DeepestVirtual(ns, Head(wl).g_proj_id) <= MaxPathLen

Propagate ==
    /\ phase = "fixpoint"
    /\ worklist # <<>>
    /\ WithinPathBound(nodes, worklist)
    /\ \E sub_order \in Perms(SubLevelTargets(nodes, Head(worklist).g_proj_id)),
          proj_order \in Perms(SameLevelSources(nodes, Head(worklist).g_proj_id)),
          neighbor_orders \in NeighborOrders(nodes, Head(worklist).g_proj_id) :
           \E fx \in {AliasAnalysisIteration(
                           FixpointContext(Graph(nodes, deref_edges, worklist),
                                           multi_drop_objects),
                           sub_order, proj_order, neighbor_orders)} :
               /\ nodes' = fx.g.nodes
               /\ worklist' = fx.g.worklist
               /\ multi_drop_objects' = fx.multi_drop_objects
    /\ UNCHANGED <<oracle, last_call, cli_args, rustc_args, options, exit_code,
                   prog, entry_def_ids, entry, cfgs, cs_reachable_calls, call_work_list,
                   deref_edges, phase, uaf_infos, df_infos, check_infos, expansions,
                   n_call_pops, raw_uaf_infos, raw_df_infos, uaf_results, df_results>>

\* PointerFlowGraph::debug_paths, lines 324-332: the nodes the dump may start from,
\* those of a function whose name ends with start[1], of local start[2], with
\* ProjectionId start[3]
DebugPathsStart(ns, start) ==
    {GlobalProjectionId(l, start[3]) :
        l \in {g_local_id \in DOMAIN ns :
                  /\ EndsWith(DefName(g_local_id.def_id), start[1])
                  /\ g_local_id.local_id = start[2]
                  /\ start[3] + 1 \in DOMAIN ns[g_local_id]}}

\* alias_analysis, lines 28-52: the dumps of the debug topics only log, but the dump
\* of "pfg-paths" unwraps its start node (debug_paths, line 332) and panics without one
DebugDumpsPanic(opts, ns) ==
    HasDbg(opts, "pfg-paths") /\ DebugPathsStart(ns, <<"main", 1, 0>>) = {}

\* alias_analysis returns (line 20, the worklist is empty; lines 28-54, the dumps);
\* check_memory_bug;
\* after_analysis, lines 129-134
Check ==
    /\ phase = "fixpoint"
    /\ worklist = <<>>
    /\ IF DebugDumpsPanic(options, nodes)
       THEN /\ phase' = "panicked"
            /\ UNCHANGED <<uaf_infos, df_infos, check_infos>>
       ELSE /\ uaf_infos' = BagOfSeq(CheckUaf(prog, cfgs, nodes, deref_edges))
            /\ df_infos' = BagOfSeq(CheckDf(prog, cfgs, nodes, multi_drop_objects))
            /\ check_infos' = [d \in DOMAIN check_infos \cup {entry.def_id} |->
                                  IF d = entry.def_id THEN CheckInfo(uaf_infos', df_infos')
                                  ELSE check_infos[d]]
            /\ phase' = "checked"
    /\ UNCHANGED <<oracle, last_call, cli_args, rustc_args, options, exit_code,
                   prog, entry_def_ids, entry, cfgs, cs_reachable_calls, call_work_list,
                   nodes, deref_edges, multi_drop_objects, worklist, expansions,
                   n_call_pops, raw_uaf_infos, raw_df_infos, uaf_results, df_results>>

\* The sum of a sequence of bags
SumOfBags(bags) ==
    LET acc[i \in 0..Len(bags)] == IF i = 0 THEN EmptyBag ELSE acc[i - 1] (+) bags[i]
    IN  acc[Len(bags)]

\* after_analysis, line 140, and merge_check_info, lines 35-38 and 63-66: the raw
\* findings of all entries, to be visited in some order
StartMerge ==
    /\ phase \in {"idle", "checked"}
    /\ entry_def_ids = {}
    /\ raw_uaf_infos' = SumOfBags([i \in 1..Cardinality(DOMAIN check_infos) |->
                                       check_infos[SeqOf(DOMAIN check_infos)[i]].uaf_infos])
    /\ raw_df_infos' = SumOfBags([i \in 1..Cardinality(DOMAIN check_infos) |->
                                      check_infos[SeqOf(DOMAIN check_infos)[i]].df_infos])
    /\ uaf_results' = EmptyMap
    /\ df_results' = EmptyMap
    /\ phase' = "merge"
    /\ UNCHANGED <<oracle, last_call, cli_args, rustc_args, options, exit_code,
                   prog, entry_def_ids, entry, cfgs, cs_reachable_calls, call_work_list,
                   nodes, deref_edges, multi_drop_objects, worklist, uaf_infos, df_infos,
                   check_infos, expansions, n_call_pops>>

\* merge_check_info, lines 39-59: one iteration of the loop over the UafInfos
MergeUaf ==
    /\ phase = "merge"
    /\ \E uaf_info \in BagToSet(raw_uaf_infos) :
           /\ raw_uaf_infos' = raw_uaf_infos (-) SetToBag({uaf_info})
           /\ uaf_results' = MergeUafInfo(prog, uaf_results, uaf_info)
    /\ UNCHANGED <<oracle, last_call, cli_args, rustc_args, options, exit_code,
                   prog, entry_def_ids, entry, cfgs, cs_reachable_calls, call_work_list,
                   nodes, deref_edges, multi_drop_objects, worklist, phase, uaf_infos,
                   df_infos, check_infos, expansions, n_call_pops, raw_df_infos,
                   df_results>>

\* merge_check_info, lines 67-87: one iteration of the loop over the DfInfos
MergeDf ==
    /\ phase = "merge"
    /\ raw_uaf_infos = EmptyBag
    /\ \E df_info \in BagToSet(raw_df_infos) :
           /\ raw_df_infos' = raw_df_infos (-) SetToBag({df_info})
           /\ df_results' = MergeDfInfo(prog, df_results, df_info)
    /\ UNCHANGED <<oracle, last_call, cli_args, rustc_args, options, exit_code,
                   prog, entry_def_ids, entry, cfgs, cs_reachable_calls, call_work_list,
                   nodes, deref_edges, multi_drop_objects, worklist, phase, uaf_infos,
                   df_infos, check_infos, expansions, n_call_pops, raw_uaf_infos,
                   uaf_results>>

\* after_analysis, lines 144-146: the findings are printed and the compilation goes
\* on whatever they are
AfterAnalysis(uaf_res, df_res) == "Continue"

\* analysis_then_check, lines 46-50: the result of RunCompiler::run, an error exactly
\* when the compiler reported errors
AnalysisThenCheck(compilation, compile_errors) == IF compile_errors THEN "Err" ELSE "Ok"

\* main, line 10: is_err() as i32
ExitStatus(result) == IF result = "Err" THEN 1 ELSE 0

\* after_analysis, lines 144-146, analysis_then_check and main: the merged findings
\* are printed, the compiler finishes (with or without errors of its own: input)
\* and the process exits
Finish ==
    /\ phase = "merge"
    /\ raw_uaf_infos = EmptyBag
    /\ raw_df_infos = EmptyBag
    /\ exit_code = None
    /\ \E compile_errors \in BOOLEAN :
           exit_code' = Some(ExitStatus(AnalysisThenCheck(
                                 AfterAnalysis(uaf_results, df_results), compile_errors)))
    /\ UNCHANGED <<oracle, last_call, cli_args, rustc_args, options, prog, entry_def_ids, entry, cfgs,
                   cs_reachable_calls, call_work_list, nodes, deref_edges,
                   multi_drop_objects, worklist, phase, uaf_infos, df_infos, check_infos,
                   expansions, n_call_pops, raw_uaf_infos, raw_df_infos, uaf_results,
                   df_results>>

Next ==
    \/ StartEntry
    \/ ProcessCall
    \/ Propagate
    \/ Check
    \/ StartMerge
    \/ MergeUaf
    \/ MergeDf
    \/ Finish

Spec == Init /\ [][Next]_vars

----------------------------------------------------------------------------
(* The merger on its own: merge_check_info applied to raw findings of one entry *)

\* Cells of f: _1 is named in the source program, _3 is not
RawCells == {GlobalProjectionId(GlobalLocalId(FnF, l), 0) : l \in {1, 3}}

RawSpanInfo(bb_id, k) == CtxtSenSpanInfo(FnF, bb_id, Span(FnF, bb_id, k), CallerContext(<<>>))

RawUafInfos ==
    {UafInfo(c[1], RawSpanInfo(2, c[3]), DropObjectId(c[2]), RawSpanInfo(1, 0)) :
        c \in RawCells \X RawCells \X {1, 2}}

RawDfInfos ==
    {DfInfo(DropObjectId(c[1]), RawSpanInfo(c[3], 0), DropObjectId(c[2]), RawSpanInfo(2, 0)) :
        c \in RawCells \X RawCells \X {0, 1}}

MergeInit ==
    /\ prog = DirectUaf
    /\ entry_def_ids = {}
    /\ entry = CtxtSenCallId(FnF, CallerContext(<<>>))
    /\ cfgs = prog.table
    /\ cs_reachable_calls = {}
    /\ call_work_list = <<>>
    /\ nodes = EmptyMap
    /\ deref_edges = {}
    /\ multi_drop_objects = {}
    /\ worklist = <<>>
    /\ phase = "checked"
    /\ \E n_uaf \in 0..MaxRaw : \E n_df \in 0..(MaxRaw - n_uaf) :
           \E uaf \in [1..n_uaf -> RawUafInfos], df \in [1..n_df -> RawDfInfos] :
               /\ uaf_infos = BagOfSeq(uaf)
               /\ df_infos = BagOfSeq(df)
               /\ check_infos = [d \in {FnF} |-> CheckInfo(BagOfSeq(uaf), BagOfSeq(df))]
    /\ expansions = EmptyBag
    /\ n_call_pops = 0
    /\ raw_uaf_infos = EmptyBag
    /\ raw_df_infos = EmptyBag
    /\ uaf_results = EmptyMap
    /\ df_results = EmptyMap
    /\ cli_args = <<>>
    /\ rustc_args = <<>>
    /\ options = AnalysisOptions(<<>>, <<>>, FALSE)
    /\ exit_code = None
    /\ last_call = None
    /\ oracle = None

MergeNext ==
    \/ StartMerge
    \/ MergeUaf
    \/ MergeDf

MergeSpec == MergeInit /\ [][MergeNext]_vars

----------------------------------------------------------------------------
(* The command line on its own: parse_args, then the choice of the entries *)

\* The arguments of a command line: the three options in several forms, an option
\* whose name only starts like --DBG, and a plain argument
ArgMenu ==
    {"--DBG=cfg,body", "--DBG=", "--DBGs=a", "--entries=f", "--entries=c::f,g",
     "--entries=m::f,x::c::f", "--open-dbg=1", "--open-dbg=0", "a.rs"}

\* f calls g; g is empty, calls itself or calls f back; m::f is called by nobody
CliProgram(body) ==
    Program([d \in {FnF, FnG, FnModF} |->
                IF d = FnF
                THEN Function(CallerBlocks(FnG, Operand("Constant", NoPlace), Local(3),
                                           "none", FALSE, "none"))
                ELSE Function(CalleeBlocks(d, IF d = FnG THEN body ELSE "empty"))],
            {FnF, FnG, FnModF}, {}, <<>>)

CliPrograms == {CliProgram(body) : body \in {"empty", "self_call", "call_back"}}
                   \cup {SelfCaller}

CliInit ==
    /\ prog \in CliPrograms
    /\ cli_args \in UNION {[1..n -> ArgMenu] : n \in 0..MaxArgs}
    /\ rustc_args = <<>>
    /\ options = AnalysisOptions(<<>>, <<>>, FALSE)
    /\ exit_code = None
    /\ last_call = None
    /\ oracle = None
    /\ entry_def_ids = {}
    /\ entry = NoCall
    /\ cfgs = prog.table
    /\ cs_reachable_calls = {}
    /\ call_work_list = <<>>
    /\ nodes = EmptyMap
    /\ deref_edges = {}
    /\ multi_drop_objects = {}
    /\ worklist = <<>>
    /\ phase = "args"
    /\ uaf_infos = EmptyBag
    /\ df_infos = EmptyBag
    /\ check_infos = EmptyMap
    /\ expansions = EmptyBag
    /\ n_call_pops = 0
    /\ raw_uaf_infos = EmptyBag
    /\ raw_df_infos = EmptyBag
    /\ uaf_results = EmptyMap
    /\ df_results = EmptyMap

\* analysis_then_check, line 42: parse_args
ParseCli ==
    /\ phase = "args"
    /\ \E parsed \in {ParseArgs(cli_args)} :
           /\ options' = parsed.options
           /\ rustc_args' = parsed.new_args
    /\ phase' = "parsed"
    /\ UNCHANGED <<oracle, last_call, cli_args, exit_code, prog, entry_def_ids, entry, cfgs,
                   cs_reachable_calls, call_work_list, nodes, deref_edges,
                   multi_drop_objects, worklist, uaf_infos, df_infos, check_infos,
                   expansions, n_call_pops, raw_uaf_infos, raw_df_infos, uaf_results,
                   df_results>>

\* after_analysis, lines 87-95: the entries, by the options that were parsed
SelectEntries ==
    /\ phase = "parsed"
    /\ entry_def_ids' = EntryDefIds([prog EXCEPT !.entries = options.entries], cfgs)
    /\ phase' = "idle"
    /\ UNCHANGED <<oracle, last_call, cli_args, rustc_args, options, exit_code, prog, entry, cfgs,
                   cs_reachable_calls, call_work_list, nodes, deref_edges,
                   multi_drop_objects, worklist, uaf_infos, df_infos, check_infos,
                   expansions, n_call_pops, raw_uaf_infos, raw_df_infos, uaf_results,
                   df_results>>

CliNext ==
    \/ ParseCli
    \/ SelectEntries

CliSpec == CliInit /\ [][CliNext]_vars

----------------------------------------------------------------------------
(* Properties *)

\* The cells of the graph, and the call sites of the functions of the table
AllCells(ns) ==
    UNION {{GlobalProjectionId(g, i - 1) : i \in 1..Len(ns[g])} : g \in DOMAIN ns}

\* The objects the cells of the graph can hold, and the destructor sites of all cells
AllObjects(ns) == {DropObjectId(c) : c \in AllCells(ns)}

AllDropSpans(ns) ==
    UNION {Range(GetProjectionNode(ns, c).cs_drop_spans) : c \in AllCells(ns)}

TableCallSites(p, table) ==
    UNION {{GlobalBasicBlockId(d, bb) :
               bb \in {b \in CallInfos(p, d) : CallInfo(p, d, b).callee_def_id \in table}} :
           d \in table}

----------------------------------------------------------------------------
(* The pointer flow graph on its own: cells are created, edges added and objects *)
(* put into points-to sets in any order                                         *)

\* The places of the cells, the function and context they belong to, and the spans of
\* the statements that add an edge
PfgPlaces == {Local(1), Place(2, <<"Deref">>)}

PfgCall == CtxtSenCallId(FnF, CallerContext(<<>>))

PfgSpans == {CtxtSenSpanInfo(FnF, 0, Span(FnF, 0, k), CallerContext(<<>>)) : k \in 1..2}

\* The number of flow edges of the graph
RECURSIVE EdgeCountOf(_, _)
EdgeCountOf(ns, cells) ==
    IF cells = {} THEN 0
    ELSE LET c == CHOOSE x \in cells : TRUE
         IN  Cardinality(GetProjectionNode(ns, c).neighbors)
                 + EdgeCountOf(ns, cells \ {c})

PfgInit ==
    /\ prog = DirectUaf
    /\ entry_def_ids = {}
    /\ entry = PfgCall
    /\ cfgs = prog.table
    /\ cs_reachable_calls = {}
    /\ call_work_list = <<>>
    /\ nodes = EmptyMap
    /\ deref_edges = {}
    /\ multi_drop_objects = {}
    /\ worklist = <<>>
    /\ phase = "pfg"
    /\ uaf_infos = EmptyBag
    /\ df_infos = EmptyBag
    /\ check_infos = EmptyMap
    /\ expansions = EmptyBag
    /\ n_call_pops = 0
    /\ raw_uaf_infos = EmptyBag
    /\ raw_df_infos = EmptyBag
    /\ uaf_results = EmptyMap
    /\ df_results = EmptyMap
    /\ cli_args = <<>>
    /\ rustc_args = <<>>
    /\ options = AnalysisOptions(<<>>, <<>>, FALSE)
    /\ exit_code = None
    /\ last_call = None
    /\ oracle = None

\* PointerFlowGraph::add_or_update_node for some place
CallAddOrUpdateNode ==
    /\ phase = "pfg"
    /\ \E place \in PfgPlaces : nodes' = AddOrUpdateNode(nodes, PfgCall, place, None)
    /\ last_call' = None
    /\ UNCHANGED <<oracle, cli_args, rustc_args, options, exit_code, prog, entry_def_ids, entry,
                   cfgs, cs_reachable_calls, call_work_list, deref_edges,
                   multi_drop_objects, worklist, phase, uaf_infos, df_infos, check_infos,
                   expansions, n_call_pops, raw_uaf_infos, raw_df_infos, uaf_results,
                   df_results>>

\* propagate, lines 302-304, for some cell and the object of some cell
CallUnionPointsTo ==
    /\ phase = "pfg"
    /\ \E cell \in AllCells(nodes), obj \in AllObjects(nodes) :
           nodes' = UnionPointsTo(nodes, cell, {obj})
    /\ last_call' = None
    /\ UNCHANGED <<oracle, cli_args, rustc_args, options, exit_code, prog, entry_def_ids, entry,
                   cfgs, cs_reachable_calls, call_work_list, deref_edges,
                   multi_drop_objects, worklist, phase, uaf_infos, df_infos, check_infos,
                   expansions, n_call_pops, raw_uaf_infos, raw_df_infos, uaf_results,
                   df_results>>

\* analysis::add_edge between two cells, for a statement at some span; last_call
\* records the call
CallAddEdge ==
    /\ phase = "pfg"
    /\ \E from \in AllCells(nodes), to \in AllCells(nodes), span_info \in PfgSpans :
           /\ HasEdge(nodes, from, to) \/ EdgeCountOf(nodes, AllCells(nodes)) < MaxEdges
           /\ \E g \in {AddEdge(Graph(nodes, deref_edges, worklist), from, to, span_info)} :
                  /\ Len(g.worklist) <= MaxQueue
                  /\ nodes' = g.nodes
                  /\ deref_edges' = g.deref_edges
                  /\ worklist' = g.worklist
           /\ last_call' = Some([from |-> from, to |-> to, span_info |-> span_info])
    /\ UNCHANGED <<oracle, cli_args, rustc_args, options, exit_code, prog, entry_def_ids, entry,
                   cfgs, cs_reachable_calls, call_work_list, multi_drop_objects, phase,
                   uaf_infos, df_infos, check_infos, expansions, n_call_pops,
                   raw_uaf_infos, raw_df_infos, uaf_results, df_results>>

PfgNext ==
    \/ CallAddOrUpdateNode
    \/ CallUnionPointsTo
    \/ CallAddEdge

PfgSpec == PfgInit /\ [][PfgNext]_vars

----------------------------------------------------------------------------
(* core/utils.rs: one call of the reachability oracle, step by step *)

\* The programs the oracle is run on: f of three blocks in some shape, g of two blocks
\* in a chain and m::f of one block that loops, with calls at up to MaxCallSites blocks
\* to f, g, m::f or ext (which is not in the function table)
OracleBlockIds ==
    {GlobalBasicBlockId(FnF, b) : b \in 0..2} \cup {GlobalBasicBlockId(FnG, b) : b \in 0..1}
        \cup {GlobalBasicBlockId(FnModF, 0)}

OracleSuccessors(shape, g_bb_id) ==
    CASE g_bb_id.def_id = FnF -> Successors(shape, 3, g_bb_id.bb_id)
      [] g_bb_id.def_id = FnG -> Successors("Chain", 2, g_bb_id.bb_id)
      [] OTHER -> Successors("Loop", 1, g_bb_id.bb_id)

OracleProgram(shape, sites, callee_of) ==
    Program([d \in {FnF, FnG, FnModF} |->
                Function([b \in {g.bb_id : g \in {h \in OracleBlockIds : h.def_id = d}} |->
                             BasicBlockInfo(
                                 OracleSuccessors(shape, GlobalBasicBlockId(d, b)), <<>>,
                                 IF GlobalBasicBlockId(d, b) \in sites
                                 THEN TermCall(callee_of[GlobalBasicBlockId(d, b)], <<>>,
                                               Local(3), Span(d, b, 0))
                                 ELSE TermOther)])],
            {FnF, FnG, FnModF}, {}, <<>>)

OraclePrograms ==
    UNION {UNION {{OracleProgram(shape, sites, callee_of) :
                      callee_of \in [sites -> {FnF, FnG, FnModF, FnExt}]} :
                  sites \in {s \in SUBSET OracleBlockIds : Cardinality(s) <= MaxCallSites}} :
           shape \in {"Chain", "Branch", "Loop"}}

\* One activation of the function: its argument from, and the entries of the
\* collection its for loop has not visited yet
OracleFrame(from, todo) == [from |-> from, todo |-> todo]

\* The call under way: the function, its arguments to and visited, the cfg that
\* can_inner_basic_block_arrive searches, the activations, and the value the last
\* activation returned
OracleCall(fn, def_id, from, to) ==
    [fn |-> fn, def_id |-> def_id, from |-> from, to |-> to, visited |-> {},
     stack |-> <<>>, ret |-> None]

\* The collection the for loop of an activation iterates: the successors of the block
\* (can_inner_basic_block_arrive, line 205) or the call_infos of the function
\* (can_call_arrive, line 146; can_basic_block_arrive, line 175), by their blocks
OracleLoopItems(p, o, from) ==
    CASE o.fn = "can_inner_basic_block_arrive" -> BlocksOf(p, o.def_id)[from].successors
      [] o.fn = "can_call_arrive" -> CallInfos(p, from)
      [] OTHER -> CallInfos(p, from.def_id)

\* A variant of OracleEnter that never records the argument as visited
OracleEnterUnvisited(p, table, o, from) ==
    IF from = o.to
    THEN [o EXCEPT !.ret = Some(TRUE)]
    ELSE IF from \in o.visited
    THEN [o EXCEPT !.ret = Some(FALSE)]
    ELSE IF /\ o.fn = "can_basic_block_arrive"
            /\ ~ CanCallArrive(p, table, {}, from.def_id, o.to.def_id).ok
    THEN [o EXCEPT !.ret = Some(FALSE)]
    ELSE IF o.fn = "can_basic_block_arrive" /\ from.def_id = o.to.def_id
    THEN [o EXCEPT !.ret = Some(CanInnerBasicBlockArrive(BlocksOf(p, from.def_id), {},
                                                         from.bb_id, o.to.bb_id).ok)]
    ELSE [o EXCEPT !.stack = Append(@, OracleFrame(from, OracleLoopItems(p, o, from))),
                   !.ret = None]

\* The function is called with from: lines 135-143, 159-173 and 195-203
OracleEnter(p, table, o, from) ==
    IF from = o.to
    THEN [o EXCEPT !.ret = Some(TRUE)]
    ELSE IF from \in o.visited
    THEN [o EXCEPT !.ret = Some(FALSE)]
    ELSE IF /\ o.fn = "can_basic_block_arrive"
            /\ ~ CanCallArrive(p, table, {}, from.def_id, o.to.def_id).ok
    THEN [o EXCEPT !.ret = Some(FALSE)]
    ELSE IF o.fn = "can_basic_block_arrive" /\ from.def_id = o.to.def_id
    THEN [o EXCEPT !.visited = @ \cup {from},
                   !.ret = Some(CanInnerBasicBlockArrive(BlocksOf(p, from.def_id), {},
                                                         from.bb_id, o.to.bb_id).ok)]
    ELSE [o EXCEPT !.visited = @ \cup {from},
                   !.stack = Append(@, OracleFrame(from, OracleLoopItems(p, o, from))),
                   !.ret = None]

\* A variant of OracleIterate that follows a call whether or not its block can be
\* reached
OracleIterateAnySite(p, table, o, item) ==
    LET top == o.stack[Len(o.stack)]
        o1 == [o EXCEPT !.stack[Len(o.stack)].todo = @ \ {item}]
    IN  CASE o.fn = "can_inner_basic_block_arrive" -> OracleEnter(p, table, o1, item)
          [] o.fn = "can_call_arrive" ->
                 IF CallInfo(p, top.from, item).callee_def_id \in table
                 THEN OracleEnter(p, table, o1, CallInfo(p, top.from, item).callee_def_id)
                 ELSE o1
          [] OTHER ->
                 IF CallInfo(p, top.from.def_id, item).callee_def_id \in table
                 THEN OracleEnter(p, table, o1,
                                  GlobalBasicBlockId(
                                      CallInfo(p, top.from.def_id, item).callee_def_id, 0))
                 ELSE o1

\* One iteration of the for loop of the last activation, for entry item of its
\* collection: lines 146-153, 175-187 and 205-209
OracleIterate(p, table, o, item) ==
    LET top == o.stack[Len(o.stack)]
        o1 == [o EXCEPT !.stack[Len(o.stack)].todo = @ \ {item}]
    IN  CASE o.fn = "can_inner_basic_block_arrive" -> OracleEnter(p, table, o1, item)
          [] o.fn = "can_call_arrive" ->
                 IF CallInfo(p, top.from, item).callee_def_id \in table
                 THEN OracleEnter(p, table, o1, CallInfo(p, top.from, item).callee_def_id)
                 ELSE o1
          [] OTHER ->
                 IF /\ CallInfo(p, top.from.def_id, item).callee_def_id \in table
                    /\ CanInnerBasicBlockArrive(BlocksOf(p, top.from.def_id), {},
                                                top.from.bb_id, item).ok
                 THEN OracleEnter(p, table, o1,
                                  GlobalBasicBlockId(
                                      CallInfo(p, top.from.def_id, item).callee_def_id, 0))
                 ELSE o1

\* The last activation returns: true as soon as a call in its loop returned true
\* (lines 149, 182 and 207), false at the end of the loop (lines 155, 188 and 211)
OracleReturned(o) ==
    [o EXCEPT !.stack = SubSeq(@, 1, Len(@) - 1), !.ret = Some(o.ret = Some(TRUE))]

\* The calls of the oracle: can_basic_block_arrive from a block of f to any block,
\* can_call_arrive between the functions (their blocks do not matter: one shape), and
\* can_inner_basic_block_arrive between the blocks of f (calls do not matter: none)
OracleShapes == {"Chain", "Branch", "Loop"}

BlockCalls ==
    {<<p, OracleCall("can_basic_block_arrive", NoDef, from, to)>> :
        p \in OraclePrograms,
        from \in {g \in OracleBlockIds : g.def_id = FnF},
        to \in OracleBlockIds}

FunctionCalls ==
    {<<p, OracleCall("can_call_arrive", NoDef, from, to)>> :
        p \in {q \in OraclePrograms : BlocksOf(q, FnF)[2].successors = {}},
        from \in {FnF, FnG, FnModF},
        to \in {FnF, FnG, FnModF}}

InnerCalls ==
    {<<OracleProgram(shape, {}, <<>>),
       OracleCall("can_inner_basic_block_arrive", FnF, from, to)>> :
        shape \in OracleShapes, from \in 0..2, to \in 0..2}

OracleStart ==
    \/ \E c \in BlockCalls :
           prog = c[1] /\ oracle = OracleEnter(c[1], c[1].table, c[2], c[2].from)
    \/ \E c \in FunctionCalls :
           prog = c[1] /\ oracle = OracleEnter(c[1], c[1].table, c[2], c[2].from)
    \/ \E c \in InnerCalls :
           prog = c[1] /\ oracle = OracleEnter(c[1], c[1].table, c[2], c[2].from)

OracleInit ==
    /\ OracleStart
    /\ entry_def_ids = {}
    /\ entry = NoCall
    /\ cfgs = prog.table
    /\ cs_reachable_calls = {}
    /\ call_work_list = <<>>
    /\ nodes = EmptyMap
    /\ deref_edges = {}
    /\ multi_drop_objects = {}
    /\ worklist = <<>>
    /\ phase = "oracle"
    /\ uaf_infos = EmptyBag
    /\ df_infos = EmptyBag
    /\ check_infos = EmptyMap
    /\ expansions = EmptyBag
    /\ n_call_pops = 0
    /\ raw_uaf_infos = EmptyBag
    /\ raw_df_infos = EmptyBag
    /\ uaf_results = EmptyMap
    /\ df_results = EmptyMap
    /\ cli_args = <<>>
    /\ rustc_args = <<>>
    /\ options = AnalysisOptions(<<>>, <<>>, FALSE)
    /\ exit_code = None
    /\ last_call = None

\* The for loop of the last activation takes its next entry, in some order
OracleLoop ==
    /\ phase = "oracle"
    /\ oracle.stack # <<>>
    /\ Len(oracle.stack) < MaxStack
    /\ oracle.ret # Some(TRUE)
    /\ \E item \in oracle.stack[Len(oracle.stack)].todo :
           oracle' = OracleIterate(prog, cfgs, oracle, item)
    /\ UNCHANGED <<last_call, cli_args, rustc_args, options, exit_code, prog,
                   entry_def_ids, entry, cfgs, cs_reachable_calls, call_work_list, nodes,
                   deref_edges, multi_drop_objects, worklist, phase, uaf_infos, df_infos,
                   check_infos, expansions, n_call_pops, raw_uaf_infos, raw_df_infos,
                   uaf_results, df_results>>

\* The last activation returns
OracleReturn ==
    /\ phase = "oracle"
    /\ oracle.stack # <<>>
    /\ oracle.ret = Some(TRUE) \/ oracle.stack[Len(oracle.stack)].todo = {}
    /\ oracle' = OracleReturned(oracle)
    /\ UNCHANGED <<last_call, cli_args, rustc_args, options, exit_code, prog,
                   entry_def_ids, entry, cfgs, cs_reachable_calls, call_work_list, nodes,
                   deref_edges, multi_drop_objects, worklist, phase, uaf_infos, df_infos,
                   check_infos, expansions, n_call_pops, raw_uaf_infos, raw_df_infos,
                   uaf_results, df_results>>

OracleNext ==
    \/ OracleLoop
    \/ OracleReturn

OracleSpec == OracleInit /\ [][OracleNext]_vars

\* The code runs on: a call that can take a step takes one
OracleFairSpec == OracleSpec /\ WF_vars(OracleNext)

----------------------------------------------------------------------------
(* The claims *)

\* C1: the fixpoint ends by exhausting the worklist on every finite IR, and the set
\* of cells stays finite.  Stated for the paths the model represents: no pop of the
\* fixpoint needs a cell with an access path longer than MaxPathLen.
C1_FixpointStaysWithinPaths ==
    phase = "fixpoint" => WithinPathBound(nodes, worklist)

\* The run of alias_analysis that takes every iteration in ascending order: the
\* call worklist to its end, then the fixpoint to its end (or to the path bound)
RECURSIVE CanonicalCalls(_, _)
CanonicalCalls(p, ctx) ==
    IF ctx.call_work_list = <<>>
    THEN ctx
    ELSE CanonicalCalls(
             p,
             ProcessCallsIteration(
                 p, ctx,
                 Ascending(DOMAIN BlocksOf(p, Head(ctx.call_work_list).def_id)),
                 Ascending(CallInfos(p, Head(ctx.call_work_list).def_id))))

RECURSIVE CanonicalFixpoint(_)
CanonicalFixpoint(fx) ==
    IF fx.g.worklist = <<>> \/ ~ WithinPathBound(fx.g.nodes, fx.g.worklist)
    THEN fx
    ELSE CanonicalFixpoint(
             AliasAnalysisIteration(
                 fx,
                 SeqOf(SubLevelTargets(fx.g.nodes, Head(fx.g.worklist).g_proj_id)),
                 Ascending(SameLevelSources(fx.g.nodes, Head(fx.g.worklist).g_proj_id)),
                 [q \in SameLevelSources(fx.g.nodes, Head(fx.g.worklist).g_proj_id) |->
                     SeqOf(NeighborIds(fx.g.nodes,
                                       GlobalProjectionId(
                                           Head(fx.g.worklist).g_proj_id.g_local_id, q)))]))

CanonicalRun(p, table, entry_call) ==
    CanonicalFixpoint(
        FixpointContext(
            CanonicalCalls(p, CallsContext(Graph(EmptyMap, {}, <<>>), <<entry_call>>, {},
                                           table)).g,
            {}))

\* The outcome of a run, with cells and objects named by what they are (function,
\* local, access path, context) and not by the ProjectionId they happened to get
CellKey(ns, c) ==
    [g_local_id |-> c.g_local_id,
     projection |-> GetProjectionNode(ns, c).projection,
     caller_context |-> GetProjectionNode(ns, c).caller_context]

Outcome(p, table, fx) ==
    LET ns == fx.g.nodes
    IN  [cells |-> {[cell |-> CellKey(ns, c),
                     points_to |-> {CellKey(ns, ObjectCell(o)) :
                                       o \in GetProjectionNode(ns, c).points_to}] :
                       c \in AllCells(ns)},
         multi_drop_objects |-> {CellKey(ns, ObjectCell(o)) : o \in fx.multi_drop_objects},
         uaf |-> {[deref |-> CellKey(ns, u.deref_proj_id), deref_span |-> u.deref_span,
                   drop |-> CellKey(ns, ObjectCell(u.drop_obj_id)),
                   drop_span |-> u.drop_span] :
                     u \in Range(CheckUaf(p, table, ns, fx.g.deref_edges))},
         df |-> {[first |-> CellKey(ns, ObjectCell(d.first_drop_obj_id)),
                  first_span |-> d.first_drop_span,
                  then |-> CellKey(ns, ObjectCell(d.then_drop_obj_id)),
                  then_span |-> d.then_drop_span] :
                    d \in Range(CheckDf(p, table, ns, fx.multi_drop_objects))}]

\* C2: confluence: whatever orders a run took, when it has ended its cells, their
\* points-to sets, multi_drop_objects and the UAF and DF findings are those of the
\* run that takes every iteration in ascending order.
C2_Confluence ==
    phase = "checked" =>
        LET canonical == CanonicalRun(prog, cfgs, entry)
        IN  canonical.g.worklist = <<>> =>
                Outcome(prog, cfgs,
                        FixpointContext(Graph(nodes, deref_edges, worklist),
                                        multi_drop_objects))
                    = Outcome(prog, cfgs, canonical)

\* C3: a step of the fixpoint never removes an object from a cell: every cell is
\* still there afterwards and its points-to set is a superset of what it was.
C3_PointsToGrows ==
    [][phase = "fixpoint" =>
           \A c \in AllCells(nodes) :
               /\ c \in AllCells(nodes')
               /\ GetProjectionNode(nodes, c).points_to
                      \subseteq GetProjectionNode(nodes', c).points_to]_vars

\* C3: a cell has received objects by two different pops
C3_Witness ==
    /\ phase = "fixpoint"
    /\ \E c \in AllCells(nodes) : Cardinality(GetProjectionNode(nodes, c).points_to) >= 2

\* C4: process_calls terminates, also on recursive call graphs: the loop has popped
\* and still holds exactly the entry and one ContextualCall per call site (with a
\* callee in the table) of each expanded ContextualCall, so it pops at most
\* 1 + S * (1 + S) times for S such call sites; it is never left with work it cannot
\* do; each ContextualCall is expanded at most once; and no cell lists a destructor
\* terminator twice.
C4_ProcessCallsTerminates ==
    LET sites == TableCallSites(prog, cfgs)
        pushed[calls \in SUBSET cs_reachable_calls] ==
            IF calls = {} THEN 0
            ELSE LET c == CHOOSE x \in calls : TRUE
                 IN  Cardinality({b \in sites : b.def_id = c.def_id})
                         + pushed[calls \ {c}]
    IN  /\ phase \in {"calls", "fixpoint", "checked"} =>
               /\ n_call_pops + Len(call_work_list) = 1 + pushed[cs_reachable_calls]
               /\ n_call_pops <= 1 + Cardinality(sites) * (1 + Cardinality(sites))
        /\ phase = "calls" => call_work_list # <<>>
        /\ phase # "calls" => call_work_list = <<>>
        /\ \A c \in BagToSet(expansions) : CopiesIn(c, expansions) = 1
        /\ \A c \in AllCells(nodes) :
               LET spans == GetProjectionNode(nodes, c).cs_drop_spans
               IN  \A i, j \in 1..Len(spans) : spans[i] = spans[j] => i = j

\* C4: process_calls has ended on a recursive call graph: a popped ContextualCall
\* was skipped as already expanded, and a cell has a destructor site
C4_Witness ==
    /\ phase = "fixpoint"
    /\ n_call_pops > Cardinality(cs_reachable_calls)
    /\ \E c \in cs_reachable_calls : \E b \in CallInfos(prog, c.def_id) :
           CallInfo(prog, c.def_id, b).callee_def_id = c.def_id
    /\ \E c \in AllCells(nodes) : GetProjectionNode(nodes, c).cs_drop_spans # <<>>

\* C5: every ContextualCall that is reachable or waiting has a context of at most
\* one call site: the entry has the empty context, every other one exactly the
\* site (caller function, calling block) of a call of its function; so there are at
\* most 1 + (number of call sites) reachable ContextualCalls.
C5_OneCallSiteContext ==
    /\ \A c \in cs_reachable_calls \cup Range(call_work_list) :
           /\ Len(c.caller_context.g_bb_ids) <= 1
           /\ Len(c.caller_context.g_bb_ids) = 0 => c = entry
           /\ Len(c.caller_context.g_bb_ids) = 1 =>
                  LET site == c.caller_context.g_bb_ids[1]
                  IN  /\ site.def_id \in cfgs
                      /\ site.bb_id \in CallInfos(prog, site.def_id)
                      /\ CallInfo(prog, site.def_id, site.bb_id).callee_def_id = c.def_id
    /\ Cardinality(cs_reachable_calls) <= 1 + Cardinality(TableCallSites(prog, cfgs))

\* C5: a ContextualCall was reached from a caller that itself has a call-site context
C5_Witness ==
    \E c \in cs_reachable_calls :
        /\ Len(c.caller_context.g_bb_ids) = 1
        /\ c.caller_context.g_bb_ids[1].def_id # entry.def_id

\* C6: the direct use after free (b0: p = &x, b1: drop x, b2: y = *p, b0 -> b1 -> b2)
\* yields exactly one UAF finding, with the drop in b1 and the deref in b2, and no
\* DF finding: as raw findings of the run and as merged results.
C6_DirectUafOneFinding ==
    prog = DirectUaf =>
        /\ phase = "checked" =>
               /\ df_infos = EmptyBag
               /\ \E u \in BagToSet(uaf_infos) :
                      /\ uaf_infos = SetToBag({u})
                      /\ SpanBlock(u.drop_span) = GlobalBasicBlockId(FnF, 1)
                      /\ SpanBlock(u.deref_span) = GlobalBasicBlockId(FnF, 2)
        /\ phase = "merge" /\ raw_uaf_infos = EmptyBag /\ raw_df_infos = EmptyBag =>
               /\ df_results = EmptyMap
               /\ Cardinality(DOMAIN uaf_results) = 1
               /\ \A k \in DOMAIN uaf_results :
                      /\ k = UafSpan(Span(FnF, 2, 1), Span(FnF, 1, 0))
                      /\ Cardinality(uaf_results[k]) = 1

\* C6: the direct use after free has been analysed, checked and merged
C6_Witness ==
    /\ prog = DirectUaf
    /\ phase = "merge"
    /\ raw_uaf_infos = EmptyBag
    /\ uaf_results # EmptyMap

\* The span of a flow edge, and the findings C7 describes: one for every recorded
\* deref edge e, endpoint of e flagged as dereferenced, object O of the endpoint's
\* points-to set and destructor site s of O's cell such that the block of s reaches
\* the block of e and is another block
EdgeSpanInfo(ns, e) ==
    (CHOOSE n \in GetProjectionNode(ns, e.from).neighbors : n.neighbor_id = e.to).span_info

FlaggedEndpoints(e) ==
    (IF e.is_deref[1] THEN {e.from} ELSE {}) \cup (IF e.is_deref[2] THEN {e.to} ELSE {})

DescribedUafInfos(p, table, ns, de) ==
    {UafInfo(x[2], EdgeSpanInfo(ns, x[1]), x[3], x[4]) :
        x \in {y \in de \X AllCells(ns) \X AllObjects(ns) \X AllDropSpans(ns) :
                  /\ y[2] \in FlaggedEndpoints(y[1])
                  /\ y[3] \in GetProjectionNode(ns, y[2]).points_to
                  /\ y[4] \in Range(GetProjectionNode(ns, ObjectCell(y[3])).cs_drop_spans)
                  /\ CanArrive(p, table, SpanBlock(y[4]),
                               SpanBlock(EdgeSpanInfo(ns, y[1])))
                  /\ SpanBlock(y[4]) # SpanBlock(EdgeSpanInfo(ns, y[1]))}}

\* C7: check_uaf emits exactly the findings described above; in particular the
\* deref of b1 that the drop of b2 cannot reach (b0 -> b1 -> b2) yields none.
C7_UafFindings ==
    phase = "checked" =>
        /\ BagToSet(uaf_infos) = DescribedUafInfos(prog, cfgs, nodes, deref_edges)
        /\ prog = OrderBlocked => uaf_infos = EmptyBag

\* C7: a finding across functions: the destructor site is in another function than
\* the dereference
C7_Witness ==
    /\ phase = "checked"
    /\ \E u \in BagToSet(uaf_infos) : u.drop_span.def_id # u.deref_span.def_id

\* The findings C8 describes: for O1 of multi_drop_objects, O2 another object of the
\* points-to set of O1's cell, s1 a destructor site of O1 and s2 one of O2: the pair
\* (s1, s2) if the block of s1 reaches the block of s2, and the reverse pair if the
\* block of s2 reaches the block of s1
DropPairs(ns, mdo) ==
    {y \in mdo \X AllObjects(ns) \X AllDropSpans(ns) \X AllDropSpans(ns) :
        /\ y[2] \in GetProjectionNode(ns, ObjectCell(y[1])).points_to \ {y[1]}
        /\ y[3] \in Range(GetProjectionNode(ns, ObjectCell(y[1])).cs_drop_spans)
        /\ y[4] \in Range(GetProjectionNode(ns, ObjectCell(y[2])).cs_drop_spans)}

DescribedDfInfos(p, table, ns, mdo) ==
    {DfInfo(y[1], y[3], y[2], y[4]) :
        y \in {z \in DropPairs(ns, mdo) :
                  CanArrive(p, table, SpanBlock(z[3]), SpanBlock(z[4]))}}
    \cup
    {DfInfo(y[2], y[4], y[1], y[3]) :
        y \in {z \in DropPairs(ns, mdo) :
                  CanArrive(p, table, SpanBlock(z[4]), SpanBlock(z[3]))}}

\* C8: check_df emits exactly the findings described above; in particular the
\* drops of two aliased cells in sibling blocks, neither reaching the other, yield
\* none.
C8_DfFindings ==
    phase = "checked" =>
        /\ BagToSet(df_infos) = DescribedDfInfos(prog, cfgs, nodes, multi_drop_objects)
        /\ prog = DropBothSiblings => df_infos = EmptyBag

\* C8: a reverse pair was emitted: the first object of a finding is not itself in
\* multi_drop_objects
C8_Witness ==
    /\ phase = "checked"
    /\ \E d \in BagToSet(df_infos) : d.first_drop_obj_id \notin multi_drop_objects

\* No function reached from the entry has a destructor terminator
NoDestructorReachable ==
    \A c \in cs_reachable_calls :
        \A bb \in DOMAIN BlocksOf(prog, c.def_id) :
            BlocksOf(prog, c.def_id)[bb].terminator.kind # "Drop"

\* C9: if no function reached from the entry has a destructor terminator, then
\* after the analysis every points-to set is empty, multi_drop_objects is empty and
\* both detectors find nothing.
C9_Emptiness ==
    phase \in {"fixpoint", "checked"} /\ NoDestructorReachable =>
        /\ \A c \in AllCells(nodes) : GetProjectionNode(nodes, c).points_to = {}
        /\ worklist = <<>>
        /\ multi_drop_objects = {}
        /\ uaf_infos = EmptyBag
        /\ df_infos = EmptyBag

\* C9: a program with a call, flow edges and a dereference, but no destructor, has
\* been analysed and checked
C9_Witness ==
    /\ phase = "checked"
    /\ NoDestructorReachable
    /\ Cardinality(cs_reachable_calls) > 1
    /\ deref_edges # {}

\* The raw findings the merger was given, and the results they stand for
MergeDone == phase = "merge" /\ raw_uaf_infos = EmptyBag /\ raw_df_infos = EmptyBag

GivenUafInfos == UNION {BagToSet(check_infos[d].uaf_infos) : d \in DOMAIN check_infos}

GivenDfInfos == UNION {BagToSet(check_infos[d].df_infos) : d \in DOMAIN check_infos}

VarNameOf(g_proj_id) ==
    prog.fn[g_proj_id.g_local_id.def_id].var_name[g_proj_id.g_local_id.local_id]

UafResultsAt(k) ==
    {[deref_span |-> u.deref_span.span, deref_var_name |-> VarNameOf(u.deref_proj_id),
      drop_span |-> u.drop_span.span, drop_var_name |-> VarNameOf(u.drop_obj_id.id)] :
        u \in {v \in GivenUafInfos :
                  v.deref_span.span = k.deref_span /\ v.drop_span.span = k.drop_span}}

DfResultsAt(k) ==
    {[first_drop_span |-> u.first_drop_span.span,
      first_drop_var_name |-> VarNameOf(u.first_drop_obj_id.id),
      then_drop_span |-> u.then_drop_span.span,
      then_drop_var_name |-> VarNameOf(u.then_drop_obj_id.id)] :
        u \in {v \in GivenDfInfos :
                  /\ v.first_drop_span.span = k.first_drop_span
                  /\ v.then_drop_span.span = k.then_drop_span}}

NamedUaf(rs) == {r \in rs : r.deref_var_name # <<>> \/ r.drop_var_name # <<>>}

NamedDf(rs) == {r \in rs : r.first_drop_var_name # <<>> \/ r.then_drop_var_name # <<>>}

\* C10: when all raw findings have been visited, in whichever order, the results of
\* a location pair are the named results its raw findings stand for if there is
\* one, and the single nameless result otherwise: a nameless and a named raw finding
\* of the same location pair leave exactly the named result.
C10_MergerDedup ==
    MergeDone =>
        /\ DOMAIN uaf_results =
               {[deref_span |-> u.deref_span.span, drop_span |-> u.drop_span.span] :
                   u \in GivenUafInfos}
        /\ \A k \in DOMAIN uaf_results :
               /\ uaf_results[k] = IF NamedUaf(UafResultsAt(k)) # {}
                                    THEN NamedUaf(UafResultsAt(k))
                                    ELSE UafResultsAt(k)
               /\ Cardinality(NamedUaf(UafResultsAt(k))) = 1 =>
                      Cardinality(uaf_results[k]) = 1
        /\ DOMAIN df_results =
               {[first_drop_span |-> u.first_drop_span.span,
                 then_drop_span |-> u.then_drop_span.span] : u \in GivenDfInfos}
        /\ \A k \in DOMAIN df_results :
               /\ df_results[k] = IF NamedDf(DfResultsAt(k)) # {}
                                   THEN NamedDf(DfResultsAt(k))
                                   ELSE DfResultsAt(k)
               /\ Cardinality(NamedDf(DfResultsAt(k))) = 1 =>
                      Cardinality(df_results[k]) = 1

\* C10: a nameless and a named raw finding of the same location pair have been
\* merged: the one result left is the named one
C10_Witness ==
    /\ MergeDone
    /\ \E k \in DOMAIN uaf_results :
           /\ Cardinality(UafResultsAt(k)) = 2
           /\ Cardinality(NamedUaf(UafResultsAt(k))) = 1
           /\ uaf_results[k] = NamedUaf(UafResultsAt(k))

\* C11: whenever the analysis emitted at least one UAF or DF finding, the process
\* ends with a nonzero status.
C11_FindingsGiveNonzeroStatus ==
    (/\ exit_code # None
     /\ phase = "merge"
     /\ (DOMAIN uaf_results # {} \/ DOMAIN df_results # {}))
        => exit_code[1] # 0

\* The key of the cell with ProjectionId i - 1 of local l
CellKeyAt(ns, l, i) ==
    <<l.def_id, ns[l][i].caller_context, l.local_id, ns[l][i].projection>>

\* No two cells of the graph share their (function, call context, local, access path),
\* and the cell stored under ProjectionId i carries that id
UniqueCells(ns) ==
    \A l \in DOMAIN ns :
        \A i, j \in 1..Len(ns[l]) :
            /\ ns[l][i].id = i - 1
            /\ i # j => CellKeyAt(ns, l, i) # CellKeyAt(ns, l, j)

\* add_or_update_virtual_node with the key of an existing cell returns that cell's id
\* and adds no cell
RepeatedCallFindsCell(ns) ==
    \A l \in DOMAIN ns :
        \A i \in 1..Len(ns[l]) :
            LET call_id == CtxtSenCallId(l.def_id, ns[l][i].caller_context)
            IN  /\ VirtualNodeId(ns, call_id, l.local_id, ns[l][i].projection)
                       = GlobalProjectionId(l, i - 1)
                /\ AddOrUpdateVirtualNode(ns, call_id, l.local_id, ns[l][i].projection,
                                          None) = ns

\* Within the run of one entry (a new entry starts from an empty graph) every
\* ProjectionId keeps the cell it was assigned to
IdsKeepTheirCell ==
    \/ phase \in {"idle", "checked"} /\ phase' = "calls"
    \/ \A l \in DOMAIN nodes :
           /\ l \in DOMAIN nodes'
           /\ \A i \in 1..Len(nodes[l]) :
                  /\ i <= Len(nodes'[l])
                  /\ CellKeyAt(nodes', l, i) = CellKeyAt(nodes, l, i)

\* C12: after any sequence of add_or_update_node / add_or_update_virtual_node calls no
\* two ProjectionNodes share the same (function, call context, local, access path), a
\* repeated call with the same key returns the id returned the first time, and a
\* ProjectionId once assigned within a local is never reassigned to another cell.
C12_OneNodePerKey ==
    /\ [](UniqueCells(nodes) /\ RepeatedCallFindsCell(nodes))
    /\ [][IdsKeepTheirCell]_vars

\* A local with two cells, one of which was looked up again after its creation: it has
\* both a destructor site and an outgoing edge
C12_Witness ==
    \E l \in DOMAIN nodes :
        /\ Len(nodes[l]) >= 2
        /\ \E i \in 1..Len(nodes[l]) :
               nodes[l][i].cs_drop_spans # <<>> /\ nodes[l][i].neighbors # {}

\* The neighbor entries of from that lead to to
EdgesBetween(ns, from, to) ==
    {n \in GetProjectionNode(ns, from).neighbors : n.neighbor_id = to}

\* C13: edge insertion is idempotent: re-adding an edge (from, to) that already exists,
\* even with a different source span, changes neither the neighbor map with its
\* recorded span, nor the deref-edge set, nor the worklist.
C13_AddEdgeIdempotent ==
    [][(/\ last_call' # None
        /\ EdgesBetween(nodes, last_call'[1].from, last_call'[1].to) # {})
           => /\ nodes' = nodes
              /\ deref_edges' = deref_edges
              /\ worklist' = worklist]_vars

\* add_edge was called for an edge that is recorded with another span, from a cell
\* whose points-to set is not empty
C13_Witness ==
    /\ last_call # None
    /\ GetProjectionNode(nodes, last_call[1].from).points_to # {}
    /\ \E n \in EdgesBetween(nodes, last_call[1].from, last_call[1].to) :
           n.span_info # last_call[1].span_info

\* C14: when add_edge inserts a new edge (from, to) and from's points-to set is not
\* empty it enqueues exactly one worklist item, (to, from's current points-to set);
\* when from's points-to set is empty it enqueues nothing.
C14_NewEdgeSchedulesPointsTo ==
    [][(/\ last_call' # None
        /\ EdgesBetween(nodes, last_call'[1].from, last_call'[1].to) = {})
           => LET from_pts == GetProjectionNode(nodes, last_call'[1].from).points_to
              IN  /\ EdgesBetween(nodes', last_call'[1].from, last_call'[1].to) # {}
                  /\ from_pts # {} =>
                         worklist' = worklist
                                         \o <<[g_proj_id |-> last_call'[1].to,
                                               points_to |-> from_pts]>>
                  /\ from_pts = {} => worklist' = worklist]_vars

\* add_edge has enqueued the points-to set of from for to
C14_Witness ==
    /\ last_call # None
    /\ worklist # <<>>
    /\ worklist[Len(worklist)].g_proj_id = last_call[1].to
    /\ worklist[Len(worklist)].points_to
           = GetProjectionNode(nodes, last_call[1].from).points_to
    /\ \A n \in EdgesBetween(nodes, last_call[1].from, last_call[1].to) :
           n.span_info = last_call[1].span_info

\* Whether the access path of a cell has a Deref
PathHasDeref(ns, c) ==
    \E i \in 1..Len(GetProjectionNode(ns, c).projection) :
        GetProjectionNode(ns, c).projection[i] = "Deref"

\* C15: PointerFlowGraph::add_edge(from, to) records a deref edge for (from, to)
\* exactly when the access path of from or of to contains a Deref, with the flags
\* (from's path contains Deref, to's path contains Deref); when neither does, the
\* deref-edge set is unchanged.
C15_DerefEdgeRecorded ==
    [][(/\ last_call' # None
        /\ EdgesBetween(nodes, last_call'[1].from, last_call'[1].to) = {})
           => LET from == last_call'[1].from
                  to == last_call'[1].to
              IN  deref_edges' =
                      IF PathHasDeref(nodes, from) \/ PathHasDeref(nodes, to)
                      THEN deref_edges
                               \cup {[from |-> from, to |-> to,
                                      is_deref |-> <<PathHasDeref(nodes, from),
                                                     PathHasDeref(nodes, to)>>]}
                      ELSE deref_edges]_vars

\* add_edge has recorded a deref edge whose source only has a Deref, next to an edge
\* between cells without one
C15_Witness ==
    /\ last_call # None
    /\ [from |-> last_call[1].from, to |-> last_call[1].to, is_deref |-> <<TRUE, FALSE>>]
           \in deref_edges
    /\ \E c \in AllCells(nodes) :
           /\ ~ PathHasDeref(nodes, c)
           /\ EdgesBetween(nodes, c, c) # {}
           /\ \A e \in deref_edges : e.from # c


\* C16: during the fixpoint phase the reachable-call set and the pointer flow graph
\* only grow: every reachable ContextualCall, cell (with its function, context, local
\* and access path), flow edge with its span, deref edge, destructor site and points-to
\* fact present before a worklist step is present after it.
C16_FixpointAppendOnly ==
    [][phase = "fixpoint" =>
           /\ cs_reachable_calls \subseteq cs_reachable_calls'
           /\ deref_edges \subseteq deref_edges'
           /\ \A c \in AllCells(nodes) :
                  /\ c \in AllCells(nodes')
                  /\ CellKeyAt(nodes', c.g_local_id, c.projection_id + 1)
                         = CellKeyAt(nodes, c.g_local_id, c.projection_id + 1)
                  /\ GetProjectionNode(nodes, c).neighbors
                         \subseteq GetProjectionNode(nodes', c).neighbors
                  /\ Range(GetProjectionNode(nodes, c).cs_drop_spans)
                         \subseteq Range(GetProjectionNode(nodes', c).cs_drop_spans)
                  /\ GetProjectionNode(nodes, c).points_to
                         \subseteq GetProjectionNode(nodes', c).points_to]_vars

\* C16: the fixpoint has added a cell and given it a points-to fact, in a graph with
\* flow edges and a destructor site
C16_Witness ==
    /\ phase = "fixpoint"
    /\ cs_reachable_calls # {}
    /\ \E c \in AllCells(nodes) : GetProjectionNode(nodes, c).neighbors # {}
    /\ \E c \in AllCells(nodes) : GetProjectionNode(nodes, c).cs_drop_spans # <<>>
    /\ \E c \in AllCells(nodes) :
           /\ GetProjectionNode(nodes, c).points_to # {}
           /\ GetProjectionNode(nodes, c).cs_drop_spans = <<>>
           /\ GetProjectionNode(nodes, c).neighbors = {}
           /\ \A d \in AllCells(nodes) :
                  \A n \in GetProjectionNode(nodes, d).neighbors : n.neighbor_id # c


\* The last n segments of a path
LastSegments(path, n) == SubSeq(path, Len(path) - n + 1, Len(path))

\* entry is a segment-wise suffix of the fully-qualified name def
SegmentSuffix(entry_path, def_id_path) ==
    /\ Len(entry_path) <= Len(def_id_path)
    /\ LastSegments(def_id_path, Len(entry_path)) = entry_path

\* C17: entry_is_suffix_of(entry, def) is true exactly when entry has at most as many
\* segments as def and equals the last len(entry) segments of def, in order; has_entry
\* selects a function exactly when some configured entry is a segment-wise suffix of
\* its fully-qualified name.
C17_EntryIsSuffixOf ==
    phase \in {"parsed", "idle"} =>
        /\ \A k \in 1..Len(options.entries) : \A def_id \in cfgs :
               EntryIsSuffixOf(ParseEntry(options.entries[k]), ParseDefId(def_id))
                   <=> SegmentSuffix(ParseEntry(options.entries[k]), ParseDefId(def_id))
        /\ \A def_id \in cfgs :
               HasEntry(options.entries, def_id)
                   <=> \E k \in 1..Len(options.entries) :
                           SegmentSuffix(ParseEntry(options.entries[k]), ParseDefId(def_id))
        /\ phase = "idle" /\ options.entries # <<>> =>
               entry_def_ids =
                   {def_id \in cfgs :
                       \E k \in 1..Len(options.entries) :
                           SegmentSuffix(ParseEntry(options.entries[k]),
                                         ParseDefId(def_id))}

\* C17: the entries were chosen by two configured entries, one a proper suffix of the
\* name of a function, the other with more segments than the name of any function
C17_Witness ==
    /\ phase = "idle"
    /\ Len(options.entries) = 2
    /\ entry_def_ids # {}
    /\ entry_def_ids # cfgs
    /\ \E def_id \in entry_def_ids :
           /\ Len(ParseEntry(options.entries[1])) = 2
           /\ Len(ParseDefId(def_id)) = 3
           /\ SegmentSuffix(ParseEntry(options.entries[1]), ParseDefId(def_id))
    /\ \A def_id \in cfgs :
           Len(ParseEntry(options.entries[2])) > Len(ParseDefId(def_id)) - 1


\* The position of the first argument that starts with text, or 0
FirstStartingWith(args, text) ==
    IF \E i \in 1..Len(args) : StartsWith(args[i], text)
    THEN CHOOSE i \in 1..Len(args) :
             /\ StartsWith(args[i], text)
             /\ \A j \in 1..(i - 1) : ~ StartsWith(args[j], text)
    ELSE 0

\* parts is the comma-split of value: no part holds a comma, and the parts with commas
\* between them give value back
IsCommaSplit(parts, value) ==
    /\ parts # <<>>
    /\ \A k \in 1..Len(parts) : \A j \in 1..Len(parts[k]) : SubSeq(parts[k], j, j) # ","
    /\ Join(parts, ",") = value

\* list is the comma-split value of the first argument of the form text<v>
IsOptionList(list, args, text) ==
    IF FirstStartingWith(args, text) = 0
    THEN list = <<>>
    ELSE IsCommaSplit(list, SubSeq(args[FirstStartingWith(args, text)], Len(text) + 1,
                                   Len(args[FirstStartingWith(args, text)])))

\* The positions of the arguments parse_args consumes
Consumed(args) ==
    {FirstStartingWith(args, "--DBG="), FirstStartingWith(args, "--entries="),
     FirstStartingWith(args, "--open-dbg=")} \ {0}

\* kept holds the arguments of args outside the positions in removed, in their order
IsRest(kept, args, removed) ==
    LET stay == (1..Len(args)) \ removed
    IN  /\ Len(kept) = Cardinality(stay)
        /\ \A k \in 1..Len(kept) :
               \E i \in stay : /\ Cardinality({j \in stay : j < i}) = k - 1
                               /\ kept[k] = args[i]

\* C18: parse_args: debug_opts is the comma-split value of the first argument of the
\* form --DBG=<v> (empty if there is none), entries likewise for --entries=<v>,
\* open_dbg is true only for a first --open-dbg=<v> with v = 1, and the returned
\* arguments are the input without exactly the consumed arguments, in the input's order.
C18_ParseArgs ==
    phase \in {"parsed", "idle"} =>
        /\ IsOptionList(options.debug_opts, cli_args, "--DBG=")
        /\ IsOptionList(options.entries, cli_args, "--entries=")
        /\ options.open_dbg
               <=> /\ FirstStartingWith(cli_args, "--open-dbg=") # 0
                   /\ cli_args[FirstStartingWith(cli_args, "--open-dbg=")] = "--open-dbg=1"
        /\ IsRest(rustc_args, cli_args, Consumed(cli_args))

\* C18: the first of two --DBG=<v> arguments was consumed, the second one and an
\* argument that only starts like the option are handed on
C18_Witness ==
    /\ phase = "parsed"
    /\ Len(cli_args) = 3
    /\ Len(options.debug_opts) = 2
    /\ Len(rustc_args) = 2
    /\ rustc_args[1] = "--DBGs=a"
    /\ StartsWith(rustc_args[2], "--DBG=")


\* Some block of caller_def_id ends in a call of callee_def_id
Calls(p, caller_def_id, callee_def_id) ==
    \E bb \in CallInfos(p, caller_def_id) :
        CallInfo(p, caller_def_id, bb).callee_def_id = callee_def_id

\* C19: with an empty entries option the analysed entries are exactly the functions of
\* the function table that no other function of the table calls (zero in-degree in the
\* local call graph, calls of a function to itself not counted); with a non-empty one
\* they are exactly the table functions some configured entry matches, whatever the
\* call graph.
C19_EntrySelection ==
    phase = "idle" =>
        IF options.entries = <<>>
        THEN entry_def_ids =
                 {def_id \in cfgs :
                     \A caller \in cfgs \ {def_id} : ~ Calls(prog, caller, def_id)}
        ELSE entry_def_ids =
                 {def_id \in cfgs :
                     \E k \in 1..Len(options.entries) :
                         LET entry_path == ParseEntry(options.entries[k])
                             def_path == ParseDefId(def_id)
                         IN  /\ Len(entry_path) <= Len(def_path)
                             /\ \A i \in 1..Len(entry_path) :
                                    entry_path[i]
                                        = def_path[Len(def_path) - Len(entry_path) + i]}

\* C19: the entries were detected, and one of them calls itself
C19_Witness ==
    /\ phase = "idle"
    /\ options.entries = <<>>
    /\ cli_args # <<>>
    /\ \E def_id \in entry_def_ids : Calls(prog, def_id, def_id)


\* C20: the debug topics have no effect on the results: whatever topics a run is given,
\* the analysis of every entry completes, so that the run reports the findings of the
\* run without topics (no run stops in the debug dumps of alias_analysis).
C20_DebugTopicsHaveNoEffect == phase # "panicked"


\* The blocks of def_id that end in a destructor of place
DropBlocksOf(p, def_id, place) ==
    {bb \in DOMAIN BlocksOf(p, def_id) :
        /\ BlocksOf(p, def_id)[bb].terminator.kind = "Drop"
        /\ BlocksOf(p, def_id)[bb].terminator.place = place}

\* The places of def_id that some destructor terminator names
DroppedPlaces(p, def_id) ==
    {BlocksOf(p, def_id)[bb].terminator.place :
        bb \in {b \in DOMAIN BlocksOf(p, def_id) :
                   BlocksOf(p, def_id)[b].terminator.kind = "Drop"}}

\* The cells of the graph for place in the context of call_id
CellsOfPlace(ns, call_id, place) ==
    {c \in AllCells(ns) :
        /\ c.g_local_id = GlobalLocalId(call_id.def_id, place.local)
        /\ GetProjectionNode(ns, c).projection = place.projection
        /\ GetProjectionNode(ns, c).caller_context = call_id.caller_context}

\* The positions of the worklist that hold item
PositionsOf(wl, item) == {i \in 1..Len(wl) : wl[i] = item}

\* Every place of an expanded call with k >= 1 destructor terminators has one cell,
\* with k destructor sites and one seed in the worklist; the worklist holds nothing
\* else
DestructorSeeding(p, calls, ns, wl) ==
    /\ \A call_id \in calls : \A place \in DroppedPlaces(p, call_id.def_id) :
           /\ Cardinality(CellsOfPlace(ns, call_id, place)) = 1
           /\ \A c \in CellsOfPlace(ns, call_id, place) :
                  /\ Len(GetProjectionNode(ns, c).cs_drop_spans)
                         = Cardinality(DropBlocksOf(p, call_id.def_id, place))
                  /\ Cardinality(Range(GetProjectionNode(ns, c).cs_drop_spans))
                         = Cardinality(DropBlocksOf(p, call_id.def_id, place))
                  /\ Cardinality(PositionsOf(wl, PointsTo(c, {DropObjectId(c)}))) = 1
    /\ \A i \in 1..Len(wl) :
           /\ wl[i].g_proj_id \in AllCells(ns)
           /\ GetProjectionNode(ns, wl[i].g_proj_id).cs_drop_spans # <<>>
           /\ wl[i].points_to = {DropObjectId(wl[i].g_proj_id)}

\* C21: destructor seeding: after each step of the expansion, every place of an
\* expanded ContextualCall with k >= 1 destructor terminators has a cell with exactly k
\* destructor sites and exactly one seed (cell, {the cell's own object}) in the
\* worklist; the further destructors of the same cell and context add a site but
\* neither a seed nor an object.
C21_DestructorSeeding ==
    [][phase = "calls" =>
           DestructorSeeding(prog, cs_reachable_calls', nodes', worklist')]_vars

\* C21: the expansion is over, and a cell with two destructor sites has its one seed
C21_Witness ==
    /\ phase = "fixpoint"
    /\ \E c \in AllCells(nodes) :
           /\ Len(GetProjectionNode(nodes, c).cs_drop_spans) = 2
           /\ Cardinality(PositionsOf(worklist, PointsTo(c, {DropObjectId(c)}))) = 1
           /\ Len(worklist) = 1


\* The assignment qualifies for a flow edge: its right-hand side is a place and it is a
\* Move, a Ref, an AddressOf, or a Copy of a place of pointer type or behind a Deref
QualifiesForEdge(p, def_id, a) ==
    /\ a.rvalue.kind = "Addressed"
    /\ \/ a.op = "Move"
       \/ a.op = "Ref"
       \/ a.op = "AddressOf"
       \/ /\ a.op = "Copy"
          /\ \/ a.rvalue.place \in p.fn[def_id].ptr_places
             \/ \E i \in 1..Len(a.rvalue.place.projection) :
                    a.rvalue.place.projection[i] = "Deref"

\* The assignments of def_id, each with its block
AssignmentsOf(p, def_id) ==
    UNION {{<<bb, BlocksOf(p, def_id)[bb].assignment_infos[k]>> :
               k \in 1..Len(BlocksOf(p, def_id)[bb].assignment_infos)} :
           bb \in DOMAIN BlocksOf(p, def_id)}

\* The spans of all flow edges of the graph
AllEdgeSpans(ns) ==
    UNION {{n.span_info : n \in GetProjectionNode(ns, c).neighbors} : c \in AllCells(ns)}

\* The places add_reachable makes cells for in a program without calls
PlacesOfEdgesAndDrops(p, def_id) ==
    DroppedPlaces(p, def_id)
        \cup UNION {{s[2].lvalue, s[2].rvalue.place} :
                       s \in {t \in AssignmentsOf(p, def_id) :
                                 QualifiesForEdge(p, def_id, t[2])}}

\* The edges and cells of the assignments of the expanded calls
AssignmentEdges(p, calls, ns) ==
    \A call_id \in calls :
        /\ \A s \in AssignmentsOf(p, call_id.def_id) :
               IF QualifiesForEdge(p, call_id.def_id, s[2])
               THEN \E from \in CellsOfPlace(ns, call_id, s[2].rvalue.place),
                       to \in CellsOfPlace(ns, call_id, s[2].lvalue) :
                        EdgesBetween(ns, from, to) # {}
               ELSE CtxtSenSpanInfo(call_id.def_id, s[1], s[2].stat_span, CallerContext(<<>>))
                        \notin AllEdgeSpans(ns)
        /\ (\A d \in DOMAIN p.fn : CallInfos(p, d) = {}) =>
               \A c \in AllCells(ns) :
                   /\ c.g_local_id.def_id = call_id.def_id
                   /\ GetProjectionNode(ns, c).caller_context = call_id.caller_context
                   => Place(c.g_local_id.local_id, GetProjectionNode(ns, c).projection)
                          \in PlacesOfEdgesAndDrops(p, call_id.def_id)

\* C22: after each step of the expansion there is a flow edge from the right-hand cell
\* to the left-hand cell of an assignment of an expanded call exactly when its
\* right-hand side is a place and the operation is Move, Ref or AddressOf, or Copy of a
\* place of pointer type or with a Deref in its path; the other assignments, those of
\* a constant among them, add no edge and no cell.
C22_AssignmentEdges ==
    [][phase = "calls" => AssignmentEdges(prog, cs_reachable_calls', nodes')]_vars

\* C22: a function with an AddressOf, a copy of a pointer, a copy of a value and an
\* assignment of a constant was expanded, and has its two edges
C22_Witness ==
    /\ phase = "fixpoint"
    /\ \E call_id \in cs_reachable_calls :
           /\ \E s \in AssignmentsOf(prog, call_id.def_id) : s[2].op = "AddressOf"
           /\ \E s \in AssignmentsOf(prog, call_id.def_id) :
                  s[2].op = "Copy" /\ QualifiesForEdge(prog, call_id.def_id, s[2])
           /\ \E s \in AssignmentsOf(prog, call_id.def_id) :
                  /\ s[2].op = "Copy" /\ s[2].rvalue.kind = "Addressed"
                  /\ ~ QualifiesForEdge(prog, call_id.def_id, s[2])
           /\ \E s \in AssignmentsOf(prog, call_id.def_id) : s[2].rvalue.kind = "Constant"
    /\ Cardinality(AllEdgeSpans(nodes)) = 2


\* The call sites of the expanded calls, each with its caller: <<caller, block>>
ExpandedCallSites(p, calls) ==
    UNION {{<<call_id, bb>> : bb \in CallInfos(p, call_id.def_id)} : call_id \in calls}

\* The operand of a call qualifies for an edge: a Move, or a Copy of a place of pointer
\* type or behind a Deref
ArgQualifies(p, def_id, arg) ==
    \/ arg.kind = "Move"
    \/ /\ arg.kind = "Copy"
       /\ \/ arg.place \in p.fn[def_id].ptr_places
          \/ \E i \in 1..Len(arg.place.projection) : arg.place.projection[i] = "Deref"

\* There is a flow edge from a cell of from_cells to a cell of to_cells
EdgeAmong(ns, from_cells, to_cells) ==
    \E from \in from_cells, to \in to_cells : EdgesBetween(ns, from, to) # {}

\* The callee of the call site <<f, b>>, in the context [(f, b)]
CalleeAt(p, site) ==
    CtxtSenCallId(CallInfo(p, site[1].def_id, site[2]).callee_def_id,
                  CallerContext(<<GlobalBasicBlockId(site[1].def_id, site[2])>>))

\* The calls of callees with IR: the callee is enqueued or expanded in the context of
\* the call site, the qualifying arguments and only they flow to the parameters
\* _1, _2, ..., and the return place _0 flows to a destination that is not of unit type
ResolvedCallEdges(p, table, calls, cwl, ns) ==
    \A site \in ExpandedCallSites(p, calls) :
        LET call_info == CallInfo(p, site[1].def_id, site[2])
            callee_id == CalleeAt(p, site)
        IN  call_info.callee_def_id \in table =>
                /\ callee_id \in Range(cwl) \cup calls
                /\ \A i \in 1..Len(call_info.args) :
                       ArgQualifies(p, site[1].def_id, call_info.args[i])
                           <=> EdgeAmong(ns,
                                         CellsOfPlace(ns, site[1], call_info.args[i].place),
                                         CellsOfPlace(ns, callee_id, Place(i, <<>>)))
                /\ call_info.destination.local \notin p.fn[site[1].def_id].unit_locals
                       <=> EdgeAmong(ns, CellsOfPlace(ns, callee_id, Place(0, <<>>)),
                                     CellsOfPlace(ns, site[1], call_info.destination))

\* C23: after each step of the expansion, for every call site (f, b) of an expanded
\* call whose callee has IR in the function table: the callee is enqueued (or already
\* expanded) with the context [(f, b)]; the argument at 0-based position i has an edge
\* from its cell in the caller's context to the cell of local i + 1 of the callee in
\* the context [(f, b)] exactly when the operand qualifies; and the callee's local 0 in
\* that context has an edge to the caller's destination cell exactly when the
\* destination is not of unit type.
C23_CallEdges ==
    [][phase = "calls" =>
           ResolvedCallEdges(prog, cfgs', cs_reachable_calls', call_work_list', nodes')]_vars

\* C23: a call of three arguments to a callee with IR was expanded: the second and the
\* third argument flow to the callee's _2 and _3, the first one does not qualify
C23_Witness ==
    /\ phase = "fixpoint"
    /\ \E site \in ExpandedCallSites(prog, cs_reachable_calls) :
           LET call_info == CallInfo(prog, site[1].def_id, site[2])
           IN  /\ call_info.callee_def_id \in cfgs
               /\ Len(call_info.args) = 3
               /\ CalleeAt(prog, site) \in cs_reachable_calls
               /\ ~ ArgQualifies(prog, site[1].def_id, call_info.args[1])
               /\ EdgeAmong(nodes, CellsOfPlace(nodes, site[1], call_info.args[2].place),
                            CellsOfPlace(nodes, CalleeAt(prog, site), Place(2, <<>>)))
               /\ EdgeAmong(nodes, CellsOfPlace(nodes, site[1], call_info.args[3].place),
                            CellsOfPlace(nodes, CalleeAt(prog, site), Place(3, <<>>)))
               /\ EdgeAmong(nodes, CellsOfPlace(nodes, CalleeAt(prog, site), Place(0, <<>>)),
                            CellsOfPlace(nodes, site[1], call_info.destination))


\* The argument -> parameter edges of the expanded calls: <<argument cell, parameter
\* cell>> for every qualifying argument of a call site whose callee has IR
ArgParamEdges(p, table, calls, ns) ==
    UNION {UNION {CellsOfPlace(ns, site[1], CallInfo(p, site[1].def_id, site[2]).args[i].place)
                      \X CellsOfPlace(ns, CalleeAt(p, site), Place(i, <<>>)) :
                  i \in {k \in 1..Len(CallInfo(p, site[1].def_id, site[2]).args) :
                            ArgQualifies(p, site[1].def_id,
                                         CallInfo(p, site[1].def_id, site[2]).args[k])}} :
           site \in {t \in ExpandedCallSites(p, calls) :
                        CallInfo(p, t[1].def_id, t[2]).callee_def_id \in table}}

\* The deref edges recorded for the flow edge from -> to
DerefEdgesOf(de, from, to) == {e \in de : e.from = from /\ e.to = to}

\* C24 (as claimed): every argument -> parameter edge is recorded as a deref edge
\* marked as dereferenced on both sides, so that the UAF detector inspects the
\* points-to sets of the argument cell and of the parameter cell for that edge.
C24_ArgEdgesDerefBothSides ==
    \A edge \in ArgParamEdges(prog, cfgs, cs_reachable_calls, nodes) :
        \E e \in DerefEdgesOf(deref_edges, edge[1], edge[2]) : e.is_deref = <<TRUE, TRUE>>

\* C24 (amended): every argument -> parameter edge is a flow edge recorded as a deref
\* edge marked as dereferenced on the argument side only, so that the UAF detector
\* inspects the points-to set of the argument cell for that edge, and not that of the
\* parameter cell.
C24_ArgEdgesDerefArgSide ==
    \A edge \in ArgParamEdges(prog, cfgs, cs_reachable_calls, nodes) :
        /\ EdgesBetween(nodes, edge[1], edge[2]) # {}
        /\ DerefEdgesOf(deref_edges, edge[1], edge[2])
               = {DerefEdgeInfo(edge[1], edge[2], <<TRUE, FALSE>>)}
        /\ \A e \in DerefEdgesOf(deref_edges, edge[1], edge[2]) :
               \A n \in EdgesBetween(nodes, edge[1], edge[2]) :
                   CheckUafEdge(prog, cfgs, nodes, e)
                       = AddUafInfos(prog, cfgs, nodes, edge[1], n.span_info)

\* C24: the check has run on a call whose argument holds a destroyed object: the finding
\* at the call names the argument cell, and the parameter cell holds the object as well
C24_Witness ==
    /\ phase = "checked"
    /\ \E edge \in ArgParamEdges(prog, cfgs, cs_reachable_calls, nodes) :
           /\ edge[1] # edge[2]
           /\ GetProjectionNode(nodes, edge[2]).points_to # {}
           /\ \E info \in BagToSet(uaf_infos) :
                  /\ info.deref_proj_id = edge[1]
                  /\ \E n \in EdgesBetween(nodes, edge[1], edge[2]) :
                         info.deref_span = n.span_info


\* The call sites of the expanded calls whose callee has no IR in the function table
UnresolvedCallSites(p, table, calls) ==
    {site \in ExpandedCallSites(p, calls) :
        CallInfo(p, site[1].def_id, site[2]).callee_def_id \notin table}

\* The fully-qualified name of the callee ends with an entry of the ignore list
NameIgnored(def_id) == \E n \in {"clone"} : EndsWith(Join(ParseDefId(def_id), "::"), n)

\* The functions that the programs define or call, and those of them with a name of
\* the ignore list
FunctionsOfPrograms == {FnF, FnG, FnLibH, FnExt, FnClone, FnAsRef, FnStdId, FnMain, FnModF}
IgnoredFunctions == {d \in FunctionsOfPrograms : NameIgnored(d)}

\* The flow edges of the graph recorded with the span of the call site
EdgesOfCallSite(ns, site, call_info) ==
    UNION {{<<c, n.neighbor_id>> :
               n \in {m \in GetProjectionNode(ns, c).neighbors :
                         m.span_info = CtxtSenSpanInfo(site[1].def_id, site[2],
                                                       call_info.span, CallerContext(<<>>))}} :
           c \in AllCells(ns)}

\* The edges from the qualifying arguments of the call site to its destination
ArgsToDestination(p, ns, site, call_info) ==
    UNION {CellsOfPlace(ns, site[1], call_info.args[i].place)
               \X CellsOfPlace(ns, site[1], call_info.destination) :
           i \in {k \in 1..Len(call_info.args) :
                     ArgQualifies(p, site[1].def_id, call_info.args[k])}}

\* Every qualifying argument of the call site has its cell
ArgsHaveCells(p, ns, site, call_info) ==
    \A i \in 1..Len(call_info.args) :
        ArgQualifies(p, site[1].def_id, call_info.args[i])
            => CellsOfPlace(ns, site[1], call_info.args[i].place) # {}

\* C25 (as claimed): for a call whose callee has no IR in the function table, every
\* qualifying argument cell has a flow edge to the call's destination cell, unless the
\* callee's name ends with an entry of the ignore list (clone); then the call adds no
\* edge at all.
C25_ExternalFallback ==
    \A site \in UnresolvedCallSites(prog, cfgs, cs_reachable_calls) :
        LET call_info == CallInfo(prog, site[1].def_id, site[2])
        IN  IF call_info.callee_def_id \in IgnoredFunctions
            THEN EdgesOfCallSite(nodes, site, call_info) = {}
            ELSE /\ ArgsHaveCells(prog, nodes, site, call_info)
                 /\ \A e \in ArgsToDestination(prog, nodes, site, call_info) :
                        EdgesBetween(nodes, e[1], e[2]) # {}
                 /\ EdgesOfCallSite(nodes, site, call_info)
                        \subseteq ArgsToDestination(prog, nodes, site, call_info)

\* C25 (amended): for a call whose callee has no IR in the function table, every
\* qualifying argument cell has a flow edge to the call's destination cell, unless the
\* destination is of unit type or the callee's name ends with an entry of the ignore
\* list (clone); then the call adds no edge at all.
C25_ExternalFallbackNonUnit ==
    \A site \in UnresolvedCallSites(prog, cfgs, cs_reachable_calls) :
        LET call_info == CallInfo(prog, site[1].def_id, site[2])
        IN  IF \/ call_info.callee_def_id \in IgnoredFunctions
               \/ call_info.destination.local \in prog.fn[site[1].def_id].unit_locals
            THEN EdgesOfCallSite(nodes, site, call_info) = {}
            ELSE /\ ArgsHaveCells(prog, nodes, site, call_info)
                 /\ \A e \in ArgsToDestination(prog, nodes, site, call_info) :
                        EdgesBetween(nodes, e[1], e[2]) # {}
                 /\ EdgesOfCallSite(nodes, site, call_info)
                        \subseteq ArgsToDestination(prog, nodes, site, call_info)

\* C25: a call of three arguments to a function without IR was expanded, and two of the
\* arguments flow to the destination
C25_Witness ==
    /\ phase = "fixpoint"
    /\ \E site \in UnresolvedCallSites(prog, cfgs, cs_reachable_calls) :
           LET call_info == CallInfo(prog, site[1].def_id, site[2])
           IN  /\ call_info.callee_def_id \notin IgnoredFunctions
               /\ Len(call_info.args) = 3
               /\ Cardinality(EdgesOfCallSite(nodes, site, call_info)) = 2


\* The fully-qualified name of the callee ends with an entry of the pass-through list
NamePassThrough(def_id) ==
    \E n \in {"from_raw", "into_raw", "as_ref", "as_mut", "borrow", "borrow_mut", "deref",
              "deref_mut", "as_ptr", "as_mut_ptr", "from_raw_parts", "as_mut_slice",
              "as_slice", "get", "get_mut", "as_bytes", "as_mut_str", "as_mut_vec",
              "as_str", "as_bytes_mut"} :
        EndsWith(Join(ParseDefId(def_id), "::"), n)

\* The functions of the programs with a pass-through name
PassThroughFunctions == {d \in FunctionsOfPrograms : NamePassThrough(d)}

\* The call sites of the expanded calls whose callee is outside the crate's own table
\* and has a pass-through name
PassThroughCallSites(p, calls) ==
    {site \in ExpandedCallSites(p, calls) :
        /\ CallInfo(p, site[1].def_id, site[2]).callee_def_id \notin p.table
        /\ CallInfo(p, site[1].def_id, site[2]).callee_def_id \in PassThroughFunctions}

\* The callee of the call site is not expanded: it is neither in the function table nor
\* reachable in any context
NotExpanded(p, table, calls, site) ==
    /\ CallInfo(p, site[1].def_id, site[2]).callee_def_id \notin table
    /\ \A call_id \in calls :
           call_id.def_id # CallInfo(p, site[1].def_id, site[2]).callee_def_id

\* C26 (as claimed): for an unresolved callee whose name matches the pass-through list
\* (as_ref, as_ptr, deref, from_raw, get, ...) the expansion of the callee's IR is
\* skipped and the call adds no argument -> destination edge.
C26_PassThroughNoEdge ==
    \A site \in PassThroughCallSites(prog, cs_reachable_calls) :
        /\ NotExpanded(prog, cfgs, cs_reachable_calls, site)
        /\ EdgesOfCallSite(nodes, site, CallInfo(prog, site[1].def_id, site[2])) = {}

\* C26 (amended): for an unresolved callee whose name matches the pass-through list the
\* expansion of the callee's IR is skipped, also when the IR can be had, and the call is
\* handled by the external-call fallback: every qualifying argument cell gets a flow
\* edge to the destination cell, unless the destination is of unit type.
C26_PassThroughFallback ==
    \A site \in PassThroughCallSites(prog, cs_reachable_calls) :
        LET call_info == CallInfo(prog, site[1].def_id, site[2])
        IN  /\ NotExpanded(prog, cfgs, cs_reachable_calls, site)
            /\ IF call_info.destination.local \in prog.fn[site[1].def_id].unit_locals
               THEN EdgesOfCallSite(nodes, site, call_info) = {}
               ELSE /\ ArgsHaveCells(prog, nodes, site, call_info)
                    /\ \A e \in ArgsToDestination(prog, nodes, site, call_info) :
                           EdgesBetween(nodes, e[1], e[2]) # {}
                    /\ EdgesOfCallSite(nodes, site, call_info)
                           \subseteq ArgsToDestination(prog, nodes, site, call_info)

\* C26: a call of a pass-through function whose IR can be had was expanded, and its
\* argument flows to the destination
C26_Witness ==
    /\ phase = "fixpoint"
    /\ \E site \in PassThroughCallSites(prog, cs_reachable_calls) :
           /\ CallInfo(prog, site[1].def_id, site[2]).callee_def_id \in prog.mir
           /\ EdgesOfCallSite(nodes, site, CallInfo(prog, site[1].def_id, site[2])) # {}


----------------------------------------------------------------------------
(* C27: the MultiDropSet *)

\* The cells that have a destructor site and point to more than one object
MultiDropCells(ns) ==
    {c \in AllCells(ns) :
        /\ Len(ns[c.g_local_id][c.projection_id + 1].cs_drop_spans) >= 1
        /\ Cardinality(ns[c.g_local_id][c.projection_id + 1].points_to) > 1}

\* C27: after every completed step of the worklist loop, the object of a cell is in
\* the MultiDropSet exactly if the cell has at least one destructor site and its
\* points-to set has more than one element.
C27_MultiDropSet ==
    phase \in {"fixpoint", "checked"} =>
        multi_drop_objects = {DropObjectId(c) : c \in MultiDropCells(nodes)}

\* The loop has registered a multi-drop object, next to a dropped cell with one
\* object and a cell with several objects that is never dropped
C27_Witness ==
    /\ phase = "fixpoint"
    /\ multi_drop_objects # {}
    /\ \E c \in AllCells(nodes) :
           /\ nodes[c.g_local_id][c.projection_id + 1].cs_drop_spans # <<>>
           /\ Cardinality(nodes[c.g_local_id][c.projection_id + 1].points_to) = 1
    /\ \E c \in AllCells(nodes) :
           /\ nodes[c.g_local_id][c.projection_id + 1].cs_drop_spans = <<>>
           /\ Cardinality(nodes[c.g_local_id][c.projection_id + 1].points_to) > 1


----------------------------------------------------------------------------
(* C28: one step of the worklist loop *)

\* The points-to set of a cell
PointsToOf(ns, c) == ns[c.g_local_id][c.projection_id + 1].points_to

\* What one pop of the worklist (item pts, graph ns, queue wl, MultiDropSet mdo) may
\* leave behind (ns2, wl2, mdo2, with the deref edges de and de2)
WorklistStep(pts, ns, wl, mdo, de, ns2, wl2, mdo2, de2) ==
    IF pts.points_to \subseteq PointsToOf(ns, pts.g_proj_id)
    THEN /\ ns2 = ns
         /\ mdo2 = mdo
         /\ de2 = de
         /\ wl2 = Tail(wl)
    ELSE /\ PointsToOf(ns2, pts.g_proj_id) =
                PointsToOf(ns, pts.g_proj_id)
                    \cup (pts.points_to \ PointsToOf(ns, pts.g_proj_id))
         /\ \A c \in AllCells(ns) \ {pts.g_proj_id} :
                PointsToOf(ns2, c) = PointsToOf(ns, c)
         /\ \A c \in AllCells(ns2) \ AllCells(ns) : PointsToOf(ns2, c) = {}
         /\ Len(wl2) >= Len(wl) - 1
         /\ SubSeq(wl2, 1, Len(wl) - 1) = Tail(wl)
         /\ \A i \in Len(wl)..Len(wl2) :
                wl2[i].points_to = pts.points_to \ PointsToOf(ns, pts.g_proj_id)

\* C28: popping an item whose incoming set is within the cell's points-to set changes
\* nothing but the head of the queue; otherwise exactly the novel objects are added to
\* the cell, and every item enqueued carries exactly the novel objects.
C28_NoOpOnSubset ==
    [][phase = "fixpoint" /\ worklist # <<>> =>
          WorklistStep(Head(worklist), nodes, worklist, multi_drop_objects, deref_edges,
                       nodes', worklist', multi_drop_objects', deref_edges')]_vars

\* The next item brings nothing new to a cell that already points to its objects
C28_Witness ==
    /\ phase = "fixpoint"
    /\ worklist # <<>>
    /\ Head(worklist).points_to # {}
    /\ Head(worklist).points_to \subseteq PointsToOf(nodes, Head(worklist).g_proj_id)


----------------------------------------------------------------------------
(* C29: edge closure *)

\* The flow edges of the graph, as pairs (from, to)
FlowEdges(ns) ==
    UNION {{<<c, n.neighbor_id>> : n \in ns[c.g_local_id][c.projection_id + 1].neighbors} :
             c \in AllCells(ns)}

\* The worklist loop of alias_analysis has exited
LoopExited == phase = "checked" \/ (phase = "fixpoint" /\ worklist = <<>>)

\* C29: when the worklist loop has exited, the worklist is empty and along every flow
\* edge (from, to) the points-to set of from is within the points-to set of to.
C29_EdgeClosure ==
    LoopExited =>
        /\ worklist = <<>>
        /\ \A e \in FlowEdges(nodes) :
               PointsToOf(nodes, e[1]) \subseteq PointsToOf(nodes, e[2])

\* The loop has exited with an object that flowed along an edge, and with an edge
\* whose target points to more than its source
C29_Witness ==
    /\ LoopExited
    /\ \E e \in FlowEdges(nodes) : PointsToOf(nodes, e[1]) # {}
    /\ \E e \in FlowEdges(nodes) : PointsToOf(nodes, e[2]) \ PointsToOf(nodes, e[1]) # {}


----------------------------------------------------------------------------
(* C30: the diffusion to the sub level *)

\* path q extends path p by at least one element
StrictPrefix(p, q) == Len(p) < Len(q) /\ SubSeq(q, 1, Len(p)) = p

\* The other cells of the local and call context of cell c whose path extends c's
DeeperCells(ns, c) ==
    {d \in AllCells(ns) :
        /\ d.g_local_id = c.g_local_id
        /\ d # c
        /\ ns[d.g_local_id][d.projection_id + 1].caller_context =
               ns[c.g_local_id][c.projection_id + 1].caller_context
        /\ StrictPrefix(ns[c.g_local_id][c.projection_id + 1].projection,
                        ns[d.g_local_id][d.projection_id + 1].projection)}

\* The flow edges that leave cell c or a cell of its local and context whose path
\* is the start of c's path: one entry is enqueued for each by the same-level step
EdgesOfPrefixes(ns, c) ==
    {e \in FlowEdges(ns) :
        /\ e[1].g_local_id = c.g_local_id
        /\ ns[e[1].g_local_id][e[1].projection_id + 1].caller_context =
               ns[c.g_local_id][c.projection_id + 1].caller_context
        /\ \/ e[1] = c
           \/ StrictPrefix(ns[e[1].g_local_id][e[1].projection_id + 1].projection,
                           ns[c.g_local_id][c.projection_id + 1].projection)}

\* The entries wl2 holds after the entries of Tail(wl), first n of them
Enqueued(wl, wl2, n) == {wl2[i] : i \in Len(wl)..(Len(wl) + n - 1)}

\* One pop of entry pts with a non-empty delta: the first entries enqueued are one
\* (d, delta) for each deeper cell d, and the rest are those of the same-level step
SubLevelStep(pts, ns, wl, wl2) ==
    pts.points_to \ PointsToOf(ns, pts.g_proj_id) # {} =>
        /\ Len(wl2) = Len(wl) - 1 + Cardinality(DeeperCells(ns, pts.g_proj_id))
                                  + Cardinality(EdgesOfPrefixes(ns, pts.g_proj_id))
        /\ Enqueued(wl, wl2, Cardinality(DeeperCells(ns, pts.g_proj_id))) =
               {PointsTo(d, pts.points_to \ PointsToOf(ns, pts.g_proj_id)) :
                    d \in DeeperCells(ns, pts.g_proj_id)}

\* C30: when a cell is processed with a non-empty delta, (c, delta) is enqueued by the
\* sub-level step for exactly the other cells c that exist then, of the same
\* function, local and call context, whose path has the processed cell's path as a
\* strict prefix; cells of the same local in another call context get no entry.
C30_SubLevelDiffusion ==
    [][phase = "fixpoint" /\ worklist # <<>> =>
          SubLevelStep(Head(worklist), nodes, worklist, worklist')]_vars

\* The next pop has a non-empty delta for a cell with a deeper cell in its own call
\* context and a deeper cell of the same local in another call context
C30_Witness ==
    /\ phase = "fixpoint"
    /\ worklist # <<>>
    /\ Head(worklist).points_to \ PointsToOf(nodes, Head(worklist).g_proj_id) # {}
    /\ DeeperCells(nodes, Head(worklist).g_proj_id) # {}
    /\ \E d \in AllCells(nodes) :
           /\ d.g_local_id = Head(worklist).g_proj_id.g_local_id
           /\ nodes[d.g_local_id][d.projection_id + 1].caller_context #
                  GetProjectionNode(nodes, Head(worklist).g_proj_id).caller_context
           /\ StrictPrefix(GetProjectionNode(nodes, Head(worklist).g_proj_id).projection,
                           nodes[d.g_local_id][d.projection_id + 1].projection)


----------------------------------------------------------------------------
(* C31: the diffusion to the same level *)

\* The path of a cell, and the ContextualCall it belongs to
PathOf(ns, c) == ns[c.g_local_id][c.projection_id + 1].projection
CallOf(ns, c) ==
    CtxtSenCallId(c.g_local_id.def_id, ns[c.g_local_id][c.projection_id + 1].caller_context)

\* The rest of path q after its first n elements
Suffix(q, n) == SubSeq(q, n + 1, Len(q))

\* The cells of ns2 that stand for N + suffix, for the flow edge e = (Q, N) and the
\* processed cell c, whose path starts with the path of Q
NeighborPlusSuffix(ns, ns2, e, c) ==
    CellsOfPlace(ns2, CallOf(ns, e[2]),
                 Place(e[2].g_local_id.local_id,
                       PathOf(ns, e[2]) \o Suffix(PathOf(ns, c), Len(PathOf(ns, e[1])))))

\* One pop of entry pts with a non-empty delta: for every flow edge (Q, N) from a cell
\* Q whose path starts the path of the processed cell, N + suffix exists afterwards and
\* is enqueued with the delta; the cells the step creates are empty
SameLevelStep(pts, ns, wl, ns2, wl2) ==
    pts.points_to \ PointsToOf(ns, pts.g_proj_id) # {} =>
        /\ \A e \in EdgesOfPrefixes(ns, pts.g_proj_id) :
               /\ Cardinality(NeighborPlusSuffix(ns, ns2, e, pts.g_proj_id)) = 1
               /\ \A d \in NeighborPlusSuffix(ns, ns2, e, pts.g_proj_id) :
                      PointsTo(d, pts.points_to \ PointsToOf(ns, pts.g_proj_id))
                          \in {wl2[i] : i \in Len(wl)..Len(wl2)}
        /\ \A d \in AllCells(ns2) \ AllCells(ns) :
               /\ ns2[d.g_local_id][d.projection_id + 1].points_to = {}
               /\ ns2[d.g_local_id][d.projection_id + 1].cs_drop_spans = <<>>
               /\ ns2[d.g_local_id][d.projection_id + 1].neighbors = {}
               /\ \E e \in EdgesOfPrefixes(ns, pts.g_proj_id) :
                      d \in NeighborPlusSuffix(ns, ns2, e, pts.g_proj_id)

\* C31: when a cell is processed with a non-empty delta, for every cell Q of the same
\* function, local and context whose path is a prefix of the processed cell's path
\* (the processed cell included) and every flow-edge neighbor N of Q, the cell
\* N + suffix exists afterwards in N's own function, context and local, and
\* (N + suffix, delta) is enqueued; a cell created by the step has an empty points-to
\* set, no destructor sites and no edges.
C31_SameLevelDiffusion ==
    [][phase = "fixpoint" /\ worklist # <<>> =>
          SameLevelStep(Head(worklist), nodes, worklist, nodes', worklist')]_vars

\* A cell with a non-empty suffix was processed: the neighbor of its prefix cell has
\* got the cell with that suffix, which the expansion did not make
C31_Witness ==
    /\ phase = "fixpoint"
    /\ \E e \in FlowEdges(nodes), c \in AllCells(nodes) :
           /\ c.g_local_id = e[1].g_local_id
           /\ CallOf(nodes, c) = CallOf(nodes, e[1])
           /\ StrictPrefix(PathOf(nodes, e[1]), PathOf(nodes, c))
           /\ PointsToOf(nodes, c) # {}
           /\ \E d \in NeighborPlusSuffix(nodes, nodes, e, c) :
                  /\ nodes[d.g_local_id][d.projection_id + 1].neighbors = {}
                  /\ nodes[d.g_local_id][d.projection_id + 1].cs_drop_spans = <<>>


----------------------------------------------------------------------------
(* C32: what the reachability oracle answers *)

\* The blocks reachable from the blocks of S over the successor edges of one function
RECURSIVE SuccessorClosure(_, _)
SuccessorClosure(blocks, S) ==
    IF UNION {blocks[b].successors : b \in S} \subseteq S
    THEN S
    ELSE SuccessorClosure(blocks, S \cup UNION {blocks[b].successors : b \in S})

\* The blocks of the functions of the table
BlocksOfTable(p, table) ==
    UNION {{GlobalBasicBlockId(d, b) : b \in DOMAIN BlocksOf(p, d)} : d \in table}

\* Block a is of another function than block to, and a call block of its function
\* whose callee is in the table is reachable from it, with the callee's block 0 in S
CallsInto(p, table, a, to, S) ==
    /\ a.def_id # to.def_id
    /\ \E c \in CallInfos(p, a.def_id) \cap SuccessorClosure(BlocksOf(p, a.def_id), {a.bb_id}) :
           /\ CallInfo(p, a.def_id, c).callee_def_id \in table
           /\ GlobalBasicBlockId(CallInfo(p, a.def_id, c).callee_def_id, 0) \in S

\* The least set of blocks related to block to that holds S
RECURSIVE ArrivingBlocks(_, _, _, _)
ArrivingBlocks(p, table, to, S) ==
    IF {a \in BlocksOfTable(p, table) : CallsInto(p, table, a, to, S)} \subseteq S
    THEN S
    ELSE ArrivingBlocks(p, table, to,
                        S \cup {a \in BlocksOfTable(p, table) : CallsInto(p, table, a, to, S)})

\* The relation R of blocks a and to
Arrives(p, table, a, to) ==
    a \in ArrivingBlocks(p, table, to,
                         {to} \cup {b \in BlocksOfTable(p, table) :
                                      /\ b.def_id = to.def_id
                                      /\ to.bb_id \in SuccessorClosure(BlocksOf(p, b.def_id),
                                                                       {b.bb_id})})

\* The functions that call to through functions of the table, with those of S
RECURSIVE CallingFunctions(_, _, _)
CallingFunctions(p, table, S) ==
    IF {d \in table : \E c \in CallInfos(p, d) : CallInfo(p, d, c).callee_def_id \in S \cap table}
           \subseteq S
    THEN S
    ELSE CallingFunctions(p, table,
             S \cup {d \in table :
                        \E c \in CallInfos(p, d) : CallInfo(p, d, c).callee_def_id \in S \cap table})

\* The call of the oracle has returned
OracleDone == phase = "oracle" /\ oracle.stack = <<>>

\* C32: can_basic_block_arrive(A, B), started with an empty visited set, returns true
\* exactly for the least relation R with R(A, A); for A and B of one function, R(A, B)
\* iff B is reachable from A over the successor edges of that function; for A and B of
\* different functions, R(A, B) iff a call block of A's function with a callee of the
\* function table is reachable from A within the function and R((callee, block 0), B).
\* This holds in whatever order the loops visit their collections: the shared visited
\* set never turns a pair of R into a false answer.
C32_OracleIsLeastRelation ==
    OracleDone =>
        CASE oracle.fn = "can_basic_block_arrive" ->
                 /\ oracle.ret = Some(Arrives(prog, cfgs, oracle.from, oracle.to))
                 /\ CanArrive(prog, cfgs, oracle.from, oracle.to)
                        = Arrives(prog, cfgs, oracle.from, oracle.to)
          [] oracle.fn = "can_inner_basic_block_arrive" ->
                 oracle.ret = Some(oracle.to \in SuccessorClosure(BlocksOf(prog, oracle.def_id),
                                                                 {oracle.from}))
          [] OTHER ->
                 oracle.ret = Some(oracle.from \in CallingFunctions(prog, cfgs, {oracle.to}))

\* can_basic_block_arrive has answered true for blocks of different functions after it
\* went through two callees
C32_Witness ==
    /\ OracleDone
    /\ oracle.fn = "can_basic_block_arrive"
    /\ oracle.from.def_id # oracle.to.def_id
    /\ oracle.ret = Some(TRUE)
    /\ Cardinality(oracle.visited) >= 3


----------------------------------------------------------------------------
(* C33: the reachability oracle terminates *)

\* C33: can_basic_block_arrive, can_call_arrive and can_inner_basic_block_arrive
\* return for every pair of blocks (of functions) of every program, control-flow
\* graphs with loops and call graphs with direct or mutual recursion included, in
\* whatever order the loops visit their collections.
C33_OracleTerminates == <>OracleDone

\* can_call_arrive has returned false on a program whose f calls g, which calls f
\* back, after it went through both
C33_Witness ==
    /\ OracleDone
    /\ oracle.fn = "can_call_arrive"
    /\ oracle.ret = Some(FALSE)
    /\ \E c \in CallInfos(prog, FnF) : CallInfo(prog, FnF, c).callee_def_id = FnG
    /\ \E c \in CallInfos(prog, FnG) : CallInfo(prog, FnG, c).callee_def_id = FnF
    /\ oracle.visited = {FnF, FnG}


----------------------------------------------------------------------------
(* C34: the lookups of the analysis and of the detectors find what they look up *)

\* The graph has the ProjectionNode with this id
CellExists(ns, c) ==
    /\ c.g_local_id \in DOMAIN ns
    /\ c.projection_id + 1 \in DOMAIN ns[c.g_local_id]

\* The ids that the worklist, the deref edges, the neighbor maps, the points-to sets and
\* the MultiDropSet hold
IdsHeld(ns, de, mdo, wl) ==
    {wl[i].g_proj_id : i \in DOMAIN wl}
        \cup {e.from : e \in de} \cup {e.to : e \in de}
        \cup {e[2] : e \in FlowEdges(ns)}
        \cup {ObjectCell(obj) : obj \in mdo \cup UNION {PointsToOf(ns, c) : c \in AllCells(ns)}}

\* C34: in a run started from an entry of the function table the lookups by id of the
\* analysis and of the detectors find their node: every worklist item, every endpoint
\* of a deref-edge record and of a flow edge, and every object held in a points-to set
\* or in the MultiDropSet names an existing ProjectionNode; every deref-edge record
\* (from, to) has to in the neighbor map of from; and every ContextualCall that is
\* expanded or waits to be has its function in the function table.  (The start node of
\* the path dump of the debug topic pfg-paths is looked up by name: see C20.)
C34_LookupsSucceed ==
    /\ \A c \in IdsHeld(nodes, deref_edges, multi_drop_objects, worklist) :
           CellExists(nodes, c)
    /\ \A e \in deref_edges : EdgesBetween(nodes, e.from, e.to) # {}
    /\ \A call_id \in cs_reachable_calls \cup Range(call_work_list) : call_id.def_id \in cfgs

\* The check has run on a graph with a deref-edge record, a multi-drop object and a
\* cell that the fixpoint made, for a call that was expanded in a second context
C34_Witness ==
    /\ phase = "checked"
    /\ deref_edges # {}
    /\ \E c \in AllCells(nodes) : PointsToOf(nodes, c) # {}
    /\ \E call_id \in cs_reachable_calls : call_id.caller_context.g_bb_ids # <<>>


----------------------------------------------------------------------------
(* C35: the abstract objects are the cells with a destructor site *)

\* The cells with at least one destructor site
DroppedCells(ns) == {c \in AllCells(ns) : GetProjectionNode(ns, c).cs_drop_spans # <<>>}

\* The objects held in the points-to sets of the graph
ObjectsHeld(ns) == UNION {PointsToOf(ns, c) : c \in AllCells(ns)}

\* C35: at every moment of the run every AbstractObjectId held in a points-to set
\* identifies a cell with at least one destructor site, and when the worklist loop has
\* exited every cell with at least one destructor site holds its own AbstractObjectId.
C35_ObjectsAreDroppedCells ==
    /\ \A obj \in ObjectsHeld(nodes) : ObjectCell(obj) \in DroppedCells(nodes)
    /\ LoopExited => \A c \in DroppedCells(nodes) : DropObjectId(c) \in PointsToOf(nodes, c)

\* The loop has exited, two cells have a destructor site, and a cell without one holds
\* an object
C35_Witness ==
    /\ LoopExited
    /\ Cardinality(DroppedCells(nodes)) >= 2
    /\ \E c \in AllCells(nodes) \ DroppedCells(nodes) : PointsToOf(nodes, c) # {}


----------------------------------------------------------------------------
(* C36: the points-to set of a cell and of the cells below it *)

\* The pairs (P, P') of cells of the same local and context with the path of P a
\* strict prefix of the path of P'
PrefixPairs(ns) ==
    {pr \in AllCells(ns) \X AllCells(ns) :
        /\ pr[1].g_local_id = pr[2].g_local_id
        /\ CallOf(ns, pr[1]) = CallOf(ns, pr[2])
        /\ StrictPrefix(PathOf(ns, pr[1]), PathOf(ns, pr[2]))}

\* C36: prefix closure: when the worklist loop has exited, the points-to set of a cell
\* is contained in the points-to set of every cell of the same function, local and
\* context whose path extends its path.
C36_PrefixClosure ==
    LoopExited =>
        \A pr \in PrefixPairs(nodes) : PointsToOf(nodes, pr[1]) \subseteq PointsToOf(nodes, pr[2])


----------------------------------------------------------------------------
(* C37: the two sites of a double-free finding *)

\* The DfInfos of the current run
DfInfosOfRun == BagToSet(df_infos)

\* C37: a DF finding never pairs a destructor site with a site in the same basic block
\* of the same function: the block of the first drop differs from the block of the
\* then drop of every DfInfo.
C37_DfSitesInDifferentBlocks ==
    \A d \in DfInfosOfRun : SpanBlock(d.first_drop_span) # SpanBlock(d.then_drop_span)

\* C37: the two objects of a DfInfo differ, and when its two sites lie in the same
\* basic block of the same function they are the sites of the same place under two
\* different call contexts.
C37_DfSitesOfDifferentObjects ==
    \A d \in DfInfosOfRun :
        /\ d.first_drop_obj_id # d.then_drop_obj_id
        /\ SpanBlock(d.first_drop_span) = SpanBlock(d.then_drop_span)
               => /\ d.first_drop_span.caller_context # d.then_drop_span.caller_context
                  /\ ObjectCell(d.first_drop_obj_id).g_local_id
                         = ObjectCell(d.then_drop_obj_id).g_local_id

\* The check has made a finding whose two sites are the one destructor of a function
\* that was expanded in two call contexts
C37_Witness ==
    /\ phase = "checked"
    /\ \E d \in DfInfosOfRun :
           /\ SpanBlock(d.first_drop_span) = SpanBlock(d.then_drop_span)
           /\ d.first_drop_span.caller_context # d.then_drop_span.caller_context


----------------------------------------------------------------------------
(* C38: the merged results do not depend on the visiting order *)

\* The copies of a raw finding that the entries handed to the merger
CopiesGiven(info, field) ==
    Cardinality(UNION {{d} \X (1..CopiesIn(info, check_infos[d][field])) :
                          d \in DOMAIN check_infos})

\* The raw findings visited so far
VisitedUafInfos ==
    {u \in GivenUafInfos : CopiesIn(u, raw_uaf_infos) < CopiesGiven(u, "uaf_infos")}
VisitedDfInfos ==
    {u \in GivenDfInfos : CopiesIn(u, raw_df_infos) < CopiesGiven(u, "df_infos")}

\* The results that the visited raw findings of location pair k stand for
VisitedUafResultsAt(k) ==
    {r \in UafResultsAt(k) :
        \E u \in VisitedUafInfos :
            /\ u.deref_span.span = k.deref_span /\ u.drop_span.span = k.drop_span
            /\ r.deref_var_name = VarNameOf(u.deref_proj_id)
            /\ r.drop_var_name = VarNameOf(u.drop_obj_id.id)}
VisitedDfResultsAt(k) ==
    {r \in DfResultsAt(k) :
        \E u \in VisitedDfInfos :
            /\ u.first_drop_span.span = k.first_drop_span
            /\ u.then_drop_span.span = k.then_drop_span
            /\ r.first_drop_var_name = VarNameOf(u.first_drop_obj_id.id)
            /\ r.then_drop_var_name = VarNameOf(u.then_drop_obj_id.id)}

\* C38: the merged results are independent of the order in which the raw findings
\* are visited: after every visit, whichever came first, the bucket of a location
\* pair is the set of all distinct named variants among the raw findings visited, or
\* the single nameless result if none of them is named; a bucket never holds the
\* nameless result next to a named one and is never empty.
C38_MergeOrderIndependent ==
    phase = "merge" =>
        /\ DOMAIN uaf_results =
               {[deref_span |-> u.deref_span.span, drop_span |-> u.drop_span.span] :
                   u \in VisitedUafInfos}
        /\ \A k \in DOMAIN uaf_results :
               /\ uaf_results[k] # {}
               /\ NamedUaf(uaf_results[k]) \in {{}, uaf_results[k]}
               /\ NamedUaf(uaf_results[k]) = {} => Cardinality(uaf_results[k]) = 1
               /\ NamedUaf(uaf_results[k]) = NamedUaf(VisitedUafResultsAt(k))
               /\ uaf_results[k] \subseteq VisitedUafResultsAt(k)
        /\ DOMAIN df_results =
               {[first_drop_span |-> u.first_drop_span.span,
                 then_drop_span |-> u.then_drop_span.span] : u \in VisitedDfInfos}
        /\ \A k \in DOMAIN df_results :
               /\ df_results[k] # {}
               /\ NamedDf(df_results[k]) \in {{}, df_results[k]}
               /\ NamedDf(df_results[k]) = {} => Cardinality(df_results[k]) = 1
               /\ NamedDf(df_results[k]) = NamedDf(VisitedDfResultsAt(k))
               /\ df_results[k] \subseteq VisitedDfResultsAt(k)

\* All raw findings have been visited; one location pair was given the nameless
\* result and two named variants, and its bucket holds the two named variants
C38_Witness ==
    /\ MergeDone
    /\ \E k \in DOMAIN uaf_results :
           /\ Cardinality(UafResultsAt(k)) = 3
           /\ Cardinality(uaf_results[k]) = 2


----------------------------------------------------------------------------
(* C39: the detected entries and the functions of the table *)

\* The functions of the table that no detected entry reaches in the local call graph
FunctionsNotCovered ==
    {def_id \in cfgs : CallingFunctions(prog, cfgs, {def_id}) \cap entry_def_ids = {}}

----------------------------------------------------------------------------
(* C40: the dereferencing statements and the UAF findings *)

\* The dereferencing statements of the expanded calls: an assignment that gets a flow
\* edge, with the side whose path holds a Deref
DerefStatements ==
    {s \in UNION {UNION {UNION {{<<call_id, bb, a, a.rvalue.place>>, <<call_id, bb, a, a.lvalue>>} :
                                   a \in Range(BlocksOf(prog, call_id.def_id)[bb].assignment_infos)} :
                            bb \in DOMAIN BlocksOf(prog, call_id.def_id)} :
                     call_id \in cs_reachable_calls} :
        /\ NeedAddEdge(prog, s[1].def_id, s[3])
        /\ ContainsDeref(s[4].projection)}

\* The findings that statement s of block s[2] is owed: the objects of the cell it
\* dereferences with a destructor site in another block that can reach the block
UafOwed(s) ==
    LET cell == NodeId(nodes, s[1], s[4])
    IN  {<<obj, drop_span_info>> \in PointsToOf(nodes, cell) \X AllDropSpans(nodes) :
            /\ drop_span_info \in Range(GetProjectionNode(nodes, ObjectCell(obj)).cs_drop_spans)
            /\ SpanBlock(drop_span_info) # GlobalBasicBlockId(s[1].def_id, s[2])
            /\ CanArrive(prog, cfgs, SpanBlock(drop_span_info),
                         GlobalBasicBlockId(s[1].def_id, s[2]))}

\* C40: the UAF detector covers every dereferencing statement: for a statement S in
\* block B, if the final points-to set of the cell it dereferences holds an object with
\* a destructor site in a block D # B that can reach B, a UAF finding (S, D) is made,
\* also when a statement of another block induces the same flow edge.
C40_UafCoversEveryDeref ==
    phase = "checked" =>
        \A s \in DerefStatements :
            \A owed \in UafOwed(s) :
                \E u \in BagToSet(uaf_infos) :
                    /\ u.deref_span.span = s[3].stat_span
                    /\ u.drop_obj_id = owed[1]
                    /\ u.drop_span = owed[2]

=============================================================================
